---- MODULE Spec2Model ----
(***************************************************************************)
(* Model of the deterministic heuristic triage engine of EmailReader:      *)
(* signal extraction (heuristics.extract_features), the scoring policy     *)
(* (heuristics.score_features with heuristics._bounded_sender_prior), the  *)
(* threshold classification (heuristics.classify_score), the AI fusion bar *)
(* (rules.is_flag_candidate / classify.compute_final_flag) and the         *)
(* decision policy (rules.triage_email).                                   *)
(*                                                                         *)
(* A message's text (subject + body + preview) is a set of phrases of a    *)
(* fixed vocabulary; every regular-expression table of heuristics.py is    *)
(* modelled by the phrases of the vocabulary it matches.  Confidences are  *)
(* integer percents (0.75 is 75).                                          *)
(***************************************************************************)
EXTENDS Integers, Sequences, FiniteSets, TLC

VARIABLES
    msg,             \* the normalized message being triaged
    user_email,      \* the user_email argument
    weights,         \* the weight table handed to score_features
    profiles,        \* the sender profile snapshot {"senders": {...}}
    ai_result,       \* the classification verdict: [supplied, fields]
    min_confidence,  \* percent
    flag_threshold,  \* classify_score arguments
    surface_threshold,
    pc,              \* position in the pipeline
    features,        \* result of extract_features
    raw_score,       \* running total of score_features before the final clamp
    score,           \* priority_score
    breakdown,       \* score_breakdown: sequence of [signal, points]
    prior,           \* points returned by _bounded_sender_prior
    decision,        \* "flag" | "surface" | "ignore" | "none" (not yet decided)
    source,          \* provenance of the result
    pre,             \* the result as it stood before the override rules
    fired,           \* the override rules whose guard held, in order
    trace,           \* the decision after each override rule, in order
    final_flag,      \* compute_final_flag: [called, value]
    flag_candidate,  \* is_flag_candidate: [called, value]
    clock,           \* the wall clock, in hours
    file,            \* what the profile path holds
    runs,            \* the batch runs: position, in-memory profile, batch
    hist             \* what the runs did to the file, in order

triageVars == <<msg, user_email, weights, profiles, ai_result, min_confidence,
                flag_threshold, surface_threshold, pc, features, raw_score,
                score, breakdown, prior, decision, source, pre, fired, trace>>

verdictVars == <<final_flag, flag_candidate>>

storeVars == <<clock, file, runs, hist>>

vars == <<triageVars, verdictVars, storeVars>>

-----------------------------------------------------------------------------
(* Bounds of the model *)

\* other addresses on the To line besides the user
MaxToOthers == 3
\* phrases of the vocabulary in one message's text
MaxPhrases == 2
\* largest counter value of a sender record
MaxSeen == 5
\* messages in one batch
MaxBatch == 2
\* the last reading of the clock, and the hours between two readings
MaxClock == 96
\* the longest list classify_emails is given, and the largest max_ai
MaxMails == 3
\* the most calls of update_sender_profiles on one profile
MaxUpdates == 3
MaxAi == 2
TickHours == 48

-----------------------------------------------------------------------------
(* Program constants *)

HEURISTIC_FLAG_THRESHOLD == 70
HEURISTIC_SURFACE_THRESHOLD == 40
DEFAULT_MIN_CONFIDENCE == 75
MinSeenForPrior == 3
DefaultMaxBoost == 12
DefaultMaxPenalty == -12
PriorScale == 24
ScoreFloor == 0
ScoreCeiling == 100
AiForcedScore == 95
Rule4MinScore == 55
Rule5MinScore == 40
Rule6MinScore == 40
BroadListMinTo == 3
SmallAudienceMaxTo == 3
SmallGroupMaxRecipients == 3
RecentHours == 48
TopReasons == 3

HEURISTIC_WEIGHTS ==
    [ to_me |-> 24, cc_me |-> 6, unknown_recipient_role |-> 0, unread |-> 8,
      importance_high |-> 14, has_attachments |-> 5, external_sender |-> 2,
      internal_sender |-> 7, vip_sender |-> 15, noreply_sender |-> -30,
      automation_pattern |-> -20, action_phrase_strong |-> 20,
      action_phrase_weak |-> 8, direct_salutation |-> 14,
      direct_salutation_to_me |-> 10, small_group_question |-> 8,
      thread_addition |-> 24, thread_addition_cc_me |-> 16,
      multi_to_no_salutation |-> -18, last_request_phrase |-> 12,
      question_present |-> 8, imperative_present |-> 10,
      deadline_present |-> 18, urgency_present |-> 12,
      approval_workflow |-> 16, contract_finance_signal |-> 14,
      fyi_phrase |-> -14, newsletter_phrase |-> -22, no_action_phrase |-> -24,
      sender_history_max_boost |-> 6, sender_history_max_penalty |-> -8 ]

-----------------------------------------------------------------------------
(* Addresses *)

Me == "dan@corp.com"
MeMixedCase == "Dan@Corp.com"
Other == "bob@corp.com"
NoSender == ""
Senders == {NoSender, "boss@corp.com", "pat@vendor.com", "noreply@vendor.com"}
M365_VIP_SENDERS == {"boss@corp.com"}

\* str.lower() on the addresses of the model
Lower(a) == IF a = MeMixedCase THEN Me ELSE a

\* the part after the first "@", "" when there is none
_sender_domain(sender_email) ==
    CASE sender_email \in {"boss@corp.com", Me, Other} -> "corp.com"
      [] sender_email \in {"pat@vendor.com", "noreply@vendor.com"} -> "vendor.com"
      [] OTHER -> ""

_user_domain(u) ==
    CASE u \in {Me, Other, "boss@corp.com"} -> "corp.com"
      [] u \in {"pat@vendor.com", "noreply@vendor.com"} -> "vendor.com"
      [] OTHER -> ""

\* re.search(r"(noreply|no-reply|donotreply|do-not-reply)", sender)
IsNoreplyAddress(sender_email) == sender_email = "noreply@vendor.com"

_sender_email(email) == Lower(email.from)

SeqRange(s) == {s[i] : i \in DOMAIN s}

_recipient_role(email, u) ==
    IF u = "" THEN "unknown"
    ELSE IF u \in {Lower(a) : a \in SeqRange(email.to)} THEN "to"
    ELSE IF u \in {Lower(a) : a \in SeqRange(email.cc)} THEN "cc"
    ELSE "unknown"

-----------------------------------------------------------------------------
(* The text of a message: phrases and the pattern tables they match *)

Vocabulary ==
    { "dan,", "please review", "can you", "last request", "approve", "kindly",
      "?", "by eod", "urgent", "sign off", "invoice", "fyi only",
      "newsletter", "adding bob to the thread", "notification" }

\* indices of the ACTION_STRONG_PATTERNS a phrase matches
ACTION_STRONG_PATTERNS(p) ==
    CASE p = "please review" -> {1}
      [] p = "can you" -> {2}
      [] p = "last request" -> {5}
      [] OTHER -> {}

\* indices of the ACTION_WEAK_PATTERNS a phrase matches
ACTION_WEAK_PATTERNS(p) ==
    CASE p = "please review" -> {1}
      [] p = "approve" -> {2}
      [] OTHER -> {}

IMPERATIVE_PATTERNS(p) == p \in {"please review", "kindly"}
DEADLINE_PATTERNS(p) == p = "by eod"
URGENCY_PATTERNS(p) == p = "urgent"
APPROVAL_PATTERNS(p) == p = "sign off"
CONTRACT_FINANCE_PATTERNS(p) == p = "invoice"
FYI_PATTERNS(p) == p = "fyi only"
NEWSLETTER_PATTERNS(p) == p = "newsletter"
NO_ACTION_PATTERNS(p) == p = "fyi only"
DIRECT_SALUTATION_PATTERN(p) == p = "dan,"
THREAD_ADDITION_PATTERN(p) == p = "adding bob to the thread"
LAST_REQUEST_PATTERN(p) == p = "last request"
\* AUTOMATION_PATTERNS are searched in the sender and the subject only;
\* "notification" is a subject phrase
AUTOMATION_PATTERNS(p) == p = "notification"

Hits(text, Matches(_)) == \E p \in text : Matches(p)

-----------------------------------------------------------------------------
(* heuristics.extract_features *)

\* the two compound signals that depend on the recipient role
DirectSalutationToMeNoRole(direct_salutation, role) == direct_salutation

DirectSalutationToMe(direct_salutation, role) ==
    direct_salutation /\ role = "to"

ThreadAdditionCcMe(thread_addition, role) ==
    thread_addition /\ role = "cc"

\* received_at: missing or empty, a string fromisoformat() rejects, or an
\* ISO timestamp with its offset, `at` hours on the clock
NoTimestamp == [kind |-> "missing", at |-> 0]
BadTimestamp == [kind |-> "invalid", at |-> 0]
Timestamp(t) == [kind |-> "iso", at |-> t]

\* the age test with the boundary excluded
_is_recent_strictly(received_at, now) ==
    IF received_at.kind = "missing" THEN FALSE
    ELSE IF received_at.kind = "invalid" THEN FALSE
    ELSE now - received_at.at < RecentHours

\* heuristics._is_recent; now is datetime.now(timezone.utc)
_is_recent(received_at, now) ==
    IF received_at.kind = "missing" THEN FALSE
    ELSE IF received_at.kind = "invalid" THEN FALSE
    ELSE now - received_at.at <= RecentHours

\* now is the clock reading when the features are extracted
extract_features(email, u, vip_senders, now) ==
    LET sender == _sender_email(email)
        sender_domain == _sender_domain(sender)
        internal_domain == _user_domain(Lower(u))
        text == email.text
        role == _recipient_role(email, Lower(u))
        to_count == Len(email.to)
        total_recipients == Len(email.to) + Len(email.cc)
        ds == Hits(text, DIRECT_SALUTATION_PATTERN)
        ta == Hits(text, THREAD_ADDITION_PATTERN)
    IN  [ recipient_role |-> role,
          to_count |-> to_count,
          is_unread |-> ~email.is_read,
          is_high_importance |-> (email.importance = "high"),
          has_attachments |-> email.has_attachments,
          is_external_sender |->
              (sender_domain # "" /\ internal_domain # ""
               /\ sender_domain # internal_domain),
          is_internal_sender |->
              (sender_domain # "" /\ internal_domain # ""
               /\ sender_domain = internal_domain),
          is_vip_sender |-> sender \in vip_senders,
          is_noreply_sender |-> IsNoreplyAddress(sender),
          automation_pattern_hit |->
              (IsNoreplyAddress(sender) \/ Hits(text, AUTOMATION_PATTERNS)),
          action_phrase_strong_hits |->
              Cardinality(UNION {ACTION_STRONG_PATTERNS(p) : p \in text}),
          action_phrase_weak_hits |->
              Cardinality(UNION {ACTION_WEAK_PATTERNS(p) : p \in text}),
          direct_salutation |-> ds,
          direct_salutation_to_me |-> DirectSalutationToMe(ds, role),
          small_group_question |->
              ("?" \in text /\ 0 < total_recipients
               /\ total_recipients <= SmallGroupMaxRecipients),
          thread_addition |-> ta,
          thread_addition_cc_me |-> ThreadAdditionCcMe(ta, role),
          multi_to_no_salutation |->
              (role = "to" /\ to_count >= BroadListMinTo /\ ~ds),
          last_request_phrase |-> Hits(text, LAST_REQUEST_PATTERN),
          is_recent |-> _is_recent(email.received_at, now),
          question_present |-> ("?" \in text),
          imperative_present |-> Hits(text, IMPERATIVE_PATTERNS),
          deadline_present |-> Hits(text, DEADLINE_PATTERNS),
          urgency_present |-> Hits(text, URGENCY_PATTERNS),
          approval_workflow_present |-> Hits(text, APPROVAL_PATTERNS),
          contract_finance_present |-> Hits(text, CONTRACT_FINANCE_PATTERNS),
          fyi_present |-> Hits(text, FYI_PATTERNS),
          newsletter_present |-> Hits(text, NEWSLETTER_PATTERNS),
          no_action_present |-> Hits(text, NO_ACTION_PATTERNS),
          sender_email |-> sender ]

NoFeatures == [recipient_role |-> "unset"]

-----------------------------------------------------------------------------
(* heuristics._bounded_sender_prior *)

Max(a, b) == IF a >= b THEN a ELSE b
Min(a, b) == IF a <= b THEN a ELSE b

\* dict.get(key, default)
Get(d, key, default) == IF key \in DOMAIN d THEN d[key] ELSE default

\* Python's round() of the rational n/d (d > 0): to nearest, ties to even
Round(n, d) ==
    LET q == n \div d
        r == n - q * d
    IN  IF 2 * r < d THEN q
        ELSE IF 2 * r > d THEN q + 1
        ELSE IF q % 2 = 0 THEN q ELSE q + 1

\* max(max_penalty, min(max_boost, raw))
BoundPriorNoFloor(raw, max_boost, max_penalty) == Min(max_boost, raw)

BoundPrior(raw, max_boost, max_penalty) ==
    Max(max_penalty, Min(max_boost, raw))

\* seen < 3: too little history to trust
InsufficientHistory(seen) == seen < MinSeenForPrior

\* a record is falsy when it is the empty dict
EmptyRecord == [x \in {} |-> 0]

\* the lookup written with setdefault(), which creates the record
ProfilesAfterPriorSetdefault(sender_email, profs) ==
    IF sender_email = "" \/ DOMAIN profs = {} THEN profs
    ELSE [k \in DOMAIN profs \cup {"senders"} |->
             IF k = "senders"
             THEN LET senders == Get(profs, "senders", EmptyRecord)
                  IN  [a \in DOMAIN senders \cup {sender_email} |->
                          IF a \in DOMAIN senders THEN senders[a]
                          ELSE [seen |-> 0]]
             ELSE profs[k]]

\* the lookup counting the message it scores
ProfilesAfterPriorCounting(sender_email, profs) ==
    IF sender_email = "" \/ DOMAIN profs = {} THEN profs
    ELSE [k \in DOMAIN profs \cup {"senders"} |->
             IF k = "senders"
             THEN LET senders == Get(profs, "senders", EmptyRecord)
                  IN  [a \in DOMAIN senders \cup {sender_email} |->
                          IF a # sender_email THEN senders[a]
                          ELSE IF a \in DOMAIN senders /\ DOMAIN senders[a] # {}
                          THEN [senders[a] EXCEPT !.seen = @ + 1,
                                                  !.flag_count = @ + 1]
                          ELSE [seen |-> 1, flag_count |-> 1]]
             ELSE profs[k]]

\* the profiles dict after _bounded_sender_prior returned: it is read with
\* .get() only, so it is the dict that was passed
ProfilesAfterPrior(sender_email, profs) == profs

_bounded_sender_prior(sender_email, profs, w) ==
    IF sender_email = "" \/ DOMAIN profs = {} THEN 0
    ELSE LET senders == Get(profs, "senders", EmptyRecord)
         IN  IF sender_email \notin DOMAIN senders THEN 0
             ELSE LET rec == senders[sender_email]
                      seen == Get(rec, "seen", 0)
                  IN  IF DOMAIN rec = {} THEN 0
                      ELSE IF InsufficientHistory(seen) THEN 0
                      ELSE LET responded == Get(rec, "flag_count", 0)
                                            + Get(rec, "surface_count", 0)
                               \* (responded / seen - 0.5) * 24
                               raw == Round(PriorScale * (2 * responded - seen),
                                            2 * seen)
                           IN  BoundPrior(raw,
                                   Get(w, "sender_history_max_boost", DefaultMaxBoost),
                                   Get(w, "sender_history_max_penalty", DefaultMaxPenalty))

-----------------------------------------------------------------------------
(* heuristics.score_features *)

\* the final clamp: max(0, min(100, score))
ClampCeilingOnly(s) == Min(ScoreCeiling, s)

Clamp(s) == Max(ScoreFloor, Min(ScoreCeiling, s))

\* the nested add(): acc is [score, breakdown]
AddClamping(acc, signal, points, when) ==
    IF ~when \/ points = 0 THEN acc
    ELSE [score |-> Max(ScoreFloor, Min(ScoreCeiling, acc.score + points)),
          breakdown |-> Append(acc.breakdown, [signal |-> signal, points |-> points])]

\* add() recording only the positive contributions
AddRecordingPositiveOnly(acc, signal, points, when) ==
    IF ~when \/ points = 0 THEN acc
    ELSE [score |-> acc.score + points,
          breakdown |-> IF points > 0
                        THEN Append(acc.breakdown,
                                    [signal |-> signal, points |-> points])
                        ELSE acc.breakdown]

Add(acc, signal, points, when) ==
    IF ~when \/ points = 0 THEN acc
    ELSE [score |-> acc.score + points,
          breakdown |-> Append(acc.breakdown, [signal |-> signal, points |-> points])]

\* the if / elif on the action phrase hit counts
StrongApplies(f) == f.action_phrase_strong_hits > 0

WeakAppliesIndependently(f) == f.action_phrase_weak_hits > 0

WeakApplies(f) ==
    ~(f.action_phrase_strong_hits > 0) /\ f.action_phrase_weak_hits > 0

\* the fixed signals in the order score_features evaluates them:
\* <<signal name (also the weight key), condition>>
Signals(f) ==
    << <<"to_me", f.recipient_role = "to">>,
       <<"cc_me", f.recipient_role = "cc">>,
       <<"unknown_recipient_role", f.recipient_role = "unknown">>,
       <<"unread", f.is_unread>>,
       <<"importance_high", f.is_high_importance>>,
       <<"has_attachments", f.has_attachments>>,
       <<"external_sender", f.is_external_sender>>,
       <<"internal_sender", f.is_internal_sender>>,
       <<"vip_sender", f.is_vip_sender>>,
       <<"noreply_sender", f.is_noreply_sender>>,
       <<"automation_pattern", f.automation_pattern_hit>>,
       <<"action_phrase_strong", StrongApplies(f)>>,
       <<"action_phrase_weak", WeakApplies(f)>>,
       <<"direct_salutation", f.direct_salutation>>,
       <<"direct_salutation_to_me", f.direct_salutation_to_me>>,
       <<"small_group_question", f.small_group_question>>,
       <<"thread_addition", f.thread_addition>>,
       <<"thread_addition_cc_me", f.thread_addition_cc_me>>,
       <<"multi_to_no_salutation", f.multi_to_no_salutation>>,
       <<"last_request_phrase", f.last_request_phrase>>,
       <<"question_present", f.question_present>>,
       <<"imperative_present", f.imperative_present>>,
       <<"deadline_present", f.deadline_present>>,
       <<"urgency_present", f.urgency_present>>,
       <<"approval_workflow", f.approval_workflow_present>>,
       <<"contract_finance_signal", f.contract_finance_present>>,
       <<"fyi_phrase", f.fyi_present>>,
       <<"newsletter_phrase", f.newsletter_present>>,
       <<"no_action_phrase", f.no_action_present>> >>

\* the value of a singleton set
The(S) == CHOOSE x \in S : TRUE

RECURSIVE AddSignals(_, _, _, _)
AddSignals(acc, sigs, w, i) ==
    IF i > Len(sigs) THEN acc
    ELSE AddSignals(Add(acc, sigs[i][1], Get(w, sigs[i][1], 0), sigs[i][2]),
                    sigs, w, i + 1)

\* returns [raw, score, breakdown, prior]: raw is the total before the clamp
score_features(f, w, profs) ==
    The({ The({ [raw |-> total.score,
                 score |-> Clamp(total.score),
                 breakdown |-> total.breakdown,
                 prior |-> prior_points] :
                total \in {Add(fixed, "sender_history", prior_points, TRUE)} }) :
          fixed \in { AddSignals([score |-> 0, breakdown |-> <<>>], sigs, w, 1) :
                      sigs \in {Signals(f)} },
          prior_points \in {_bounded_sender_prior(f.sender_email, profs, w)} })

-----------------------------------------------------------------------------
(* heuristics.classify_score *)

classify_score_surface_first(s, ft, st) ==
    IF s >= st THEN "surface"
    ELSE IF s >= ft THEN "flag"
    ELSE "ignore"

classify_score(s, ft, st) ==
    IF s >= ft THEN "flag"
    ELSE IF s >= st THEN "surface"
    ELSE "ignore"

-----------------------------------------------------------------------------
(* The AI fusion bar: rules.is_flag_candidate, AI branch *)

FlaggableTypes == {"action_request", "direct_question", "meeting_request"}

AiFlagBarStrictlyAbove(fields, min_conf) ==
    /\ Get(fields, "classification", "unknown") \in FlaggableTypes
    /\ Get(fields, "confidence", 0) > min_conf
    /\ Get(fields, "asks_me_specifically", FALSE)

\* the bar with a missing confidence read as certainty
AiFlagBarDefaultingToCertain(fields, min_conf) ==
    /\ Get(fields, "classification", "unknown") \in FlaggableTypes
    /\ Get(fields, "confidence", 100) >= min_conf
    /\ Get(fields, "asks_me_specifically", FALSE)

\* the bar without its asks_me_specifically conjunct
AiFlagBarIgnoringAsksMe(fields, min_conf) ==
    /\ Get(fields, "classification", "unknown") \in FlaggableTypes
    /\ Get(fields, "confidence", 0) >= min_conf

AiFlagBar(fields, min_conf) ==
    /\ Get(fields, "classification", "unknown") \in FlaggableTypes
    /\ Get(fields, "confidence", 0) >= min_conf
    /\ Get(fields, "asks_me_specifically", FALSE)

\* the model's own should_flag returned as the final flag
compute_final_flag_trusting_model(fields, min_conf) ==
    Get(fields, "should_flag", FALSE)

\* classify.compute_final_flag
compute_final_flag(fields, min_conf) ==
    LET classification == Get(fields, "classification", "unknown")
        confidence == Get(fields, "confidence", 0)
        asks_me == Get(fields, "asks_me_specifically", FALSE)
    IN  /\ classification \in FlaggableTypes
        /\ confidence >= min_conf
        /\ asks_me

\* rules.ACTION_KEYWORDS: the phrases of the vocabulary that hold a keyword
ACTION_KEYWORDS(p) == p \in {"please review", "can you", "approve"}

\* rules.AUTO_NOTIFICATION_PATTERNS in the sender address or the subject
is_auto_notification(email) ==
    \/ Lower(email.from) = "noreply@vendor.com"
    \/ "notification" \in email.text

\* rules.get_recipient_role; u is rules.M365_USER_EMAIL
get_recipient_role(email, u) ==
    IF u = "" THEN "unknown"
    ELSE IF u \in {Lower(a) : a \in SeqRange(email.to)} THEN "to"
    ELSE IF u \in {Lower(a) : a \in SeqRange(email.cc)} THEN "cc"
    ELSE "unknown"

\* rules.is_flag_candidate; a verdict that is None or an empty dict is falsy
\* and takes the offline branch
is_flag_candidate(email, ai, min_conf, u) ==
    IF ai.supplied /\ DOMAIN ai.fields # {}
    THEN AiFlagBar(ai.fields, min_conf)
    ELSE /\ get_recipient_role(email, u) = "to"
         /\ ~is_auto_notification(email)
         /\ Hits(email.text, ACTION_KEYWORDS)

-----------------------------------------------------------------------------
(* The decision policy: rules.triage_email, step 3 *)

Rules == 1..6

RuleGuard(r, f, s, d) ==
    CASE r = 1 -> /\ d = "flag"
                  /\ f.recipient_role = "cc"
                  /\ ~f.thread_addition_cc_me
      [] r = 2 -> /\ f.recipient_role = "to"
                  /\ f.to_count >= BroadListMinTo
                  /\ ~f.direct_salutation
                  /\ ~f.last_request_phrase
                  /\ f.action_phrase_strong_hits = 0
                  /\ d = "flag"
      [] r = 3 -> /\ f.recipient_role = "to"
                  /\ f.small_group_question
                  /\ ~f.direct_salutation
                  /\ ~f.deadline_present
                  /\ ~f.last_request_phrase
                  /\ f.action_phrase_strong_hits = 0
                  /\ d = "flag"
      [] r = 4 -> /\ f.recipient_role = "to"
                  /\ f.direct_salutation
                  /\ \/ f.imperative_present
                     \/ f.question_present
                     \/ f.action_phrase_strong_hits > 0
                     \/ f.action_phrase_weak_hits > 0
                  /\ s >= Rule4MinScore
      [] r = 5 -> /\ f.direct_salutation_to_me
                  /\ f.to_count <= SmallAudienceMaxTo
                  /\ s >= Rule5MinScore
      [] r = 6 -> /\ f.thread_addition_cc_me
                  /\ s >= Rule6MinScore

\* the dampening rules sending the message to ignore
RuleTargetDampeningToIgnore(r) == IF r \in {1, 2, 3} THEN "ignore" ELSE "flag"

RuleTarget(r) == IF r \in {1, 2, 3} THEN "surface" ELSE "flag"

\* a rule acts on the result [decision, score, breakdown, features, source]
ApplyRuleRaisingScore(r, res) ==
    IF RuleGuard(r, res.features, res.score, res.decision)
    THEN [res EXCEPT !.decision = RuleTarget(r),
                     !.score = IF r \in {4, 5, 6}
                               THEN Max(res.score, HEURISTIC_FLAG_THRESHOLD)
                               ELSE res.score]
    ELSE res

ApplyRule(r, res) ==
    IF RuleGuard(r, res.features, res.score, res.decision)
    THEN [res EXCEPT !.decision = RuleTarget(r)]
    ELSE res

\* the rules of `order` applied once each, front to back, to
\* st = [res, fired, trace]
RECURSIVE RunRules(_, _, _)
RunRules(order, i, st) ==
    IF i > Len(order) THEN st
    ELSE LET r == order[i]
             out == ApplyRule(r, st.res)
         IN  RunRules(order, i + 1,
                 [res |-> out,
                  fired |-> IF RuleGuard(r, st.res.features, st.res.score,
                                         st.res.decision)
                            THEN Append(st.fired, r) ELSE st.fired,
                  trace |-> Append(st.trace, out.decision)])

RuleOrder == <<1, 2, 3, 4, 5, 6>>

OverrideDecision(order, res) ==
    RunRules(order, 1, [res |-> res, fired |-> <<>>, trace |-> <<>>])

-----------------------------------------------------------------------------
(* heuristics.summarize_reasons and heuristics.evaluate_email *)

\* the entries of b with positive points, in order
RECURSIVE Positive(_, _)
Positive(b, i) ==
    IF i > Len(b) THEN <<>>
    ELSE (IF b[i].points > 0 THEN <<b[i]>> ELSE <<>>) \o Positive(b, i + 1)

\* list.sort(key=points, reverse=True): stable, larger points first
SortedByPoints(b) ==
    LET rank(i) == Cardinality({j \in DOMAIN b :
                                   \/ b[j].points > b[i].points
                                   \/ b[j].points = b[i].points /\ j < i})
    IN  [k \in DOMAIN b |-> b[CHOOSE i \in DOMAIN b : rank(i) = k - 1]]

\* the reason string, as the signals and points it joins; <<>> stands for
\* "Low-signal message"
summarize_reasons(b) ==
    LET positive == SortedByPoints(Positive(b, 1))
    IN  SubSeq(positive, 1, Min(TopReasons, Len(positive)))

\* heuristics.evaluate_email at clock reading now
\* the result evaluate_email builds from the features and the scoring
Evaluation(f, scoring) ==
    [decision |-> classify_score(scoring.score, HEURISTIC_FLAG_THRESHOLD,
                                 HEURISTIC_SURFACE_THRESHOLD),
     score |-> scoring.score,
     reason |-> summarize_reasons(scoring.breakdown),
     breakdown |-> scoring.breakdown,
     features |-> f,
     source |-> "heuristic"]

evaluate_email(email, profs, u, now) ==
    The({ The({ Evaluation(f, scoring) :
                scoring \in {score_features(f, HEURISTIC_WEIGHTS, profs)} }) :
          f \in {extract_features(email, u, M365_VIP_SENDERS, now)} })

\* rules.triage_email(email, ai_result=None): the heuristic result and the
\* override rules
triage_email(email, profs, u, now) ==
    OverrideDecision(RuleOrder, evaluate_email(email, profs, u, now)).res

-----------------------------------------------------------------------------
(* Inputs *)

Others(k) == [i \in 1..k |-> Other]

ToLists == {(IF me THEN <<Me>> ELSE <<>>) \o Others(k) :
                me \in BOOLEAN, k \in 0..MaxToOthers}

CcLists == {<<>>, <<Other, MeMixedCase>>}

Texts == {t \in SUBSET Vocabulary : Cardinality(t) <= MaxPhrases}

NoVerdict == [supplied |-> FALSE, fields |-> EmptyRecord]

Verdict(c, conf, asks) ==
    [supplied |-> TRUE,
     fields |-> [classification |-> c, confidence |-> conf,
                 asks_me_specifically |-> asks]]

Verdicts ==
    { NoVerdict,
      Verdict("action_request", DEFAULT_MIN_CONFIDENCE, TRUE),
      Verdict("meeting_request", DEFAULT_MIN_CONFIDENCE - 1, TRUE),
      Verdict("direct_question", 90, FALSE),
      Verdict("fyi", 90, TRUE) }

EmptyProfile == [senders |-> EmptyRecord]

SenderRecord(seen, fc, sc) ==
    [seen |-> seen, flag_count |-> fc, surface_count |-> sc,
     ignore_count |-> IF seen >= fc + sc THEN seen - fc - sc ELSE 0,
     last_seen |-> "t0"]

ProfileOf(sender, rec) == [senders |-> [s \in {sender} |-> rec]]

NoResult ==
    [decision |-> "none", score |-> 0, breakdown |-> <<>>,
     features |-> NoFeatures, source |-> "none"]

\* no call of compute_final_flag or is_flag_candidate was made
NotCalled == [called |-> FALSE, value |-> FALSE]

Returned(v) == [called |-> TRUE, value |-> v]

VerdictIdle ==
    /\ final_flag = NotCalled
    /\ flag_candidate = NotCalled

NoFile == [kind |-> "absent"]

\* no batch run, nothing persisted
StoreIdle ==
    /\ clock = 0
    /\ file = NoFile
    /\ runs = <<>>
    /\ hist = <<>>

Unset ==
    /\ features = NoFeatures
    /\ raw_score = 0
    /\ score = 0
    /\ breakdown = <<>>
    /\ prior = 0
    /\ decision = "none"
    /\ source = "none"
    /\ pre = NoResult
    /\ fired = <<>>
    /\ trace = <<>>

\* (is_read, importance, has_attachments) of the messages of the model
Flags == { <<FALSE, "normal", FALSE>>, <<FALSE, "high", TRUE>> }

Message(from, to, cc, text, fl) ==
    [from |-> from, to |-> to, cc |-> cc, text |-> text,
     is_read |-> fl[1], importance |-> fl[2], has_attachments |-> fl[3],
     received_at |-> NoTimestamp]

\* the message m received at ts
Received(m, ts) == [m EXCEPT !.received_at = ts]

-----------------------------------------------------------------------------
(* rules.triage_email: evaluate_email, AI fusion, override rules *)

Init ==
    /\ msg \in {Message("pat@vendor.com", to, cc, text, fl) :
                  to \in ToLists, cc \in CcLists, text \in Texts, fl \in Flags}
    /\ user_email = Me
    /\ VerdictIdle
    /\ StoreIdle
    /\ weights = HEURISTIC_WEIGHTS
    /\ profiles = EmptyProfile
    /\ ai_result \in Verdicts
    /\ min_confidence = DEFAULT_MIN_CONFIDENCE
    /\ flag_threshold = HEURISTIC_FLAG_THRESHOLD
    /\ surface_threshold = HEURISTIC_SURFACE_THRESHOLD
    /\ pc = "start"
    /\ Unset

\* heuristics.evaluate_email
EvaluateEmail ==
    /\ pc = "start"
    /\ \E f \in {extract_features(msg, user_email, M365_VIP_SENDERS, clock)} :
       \E scoring \in {score_features(f, HEURISTIC_WEIGHTS, profiles)} :
           /\ features' = f
           /\ raw_score' = scoring.raw
           /\ score' = scoring.score
           /\ breakdown' = scoring.breakdown
           /\ prior' = scoring.prior
           /\ decision' = classify_score(scoring.score, HEURISTIC_FLAG_THRESHOLD,
                                         HEURISTIC_SURFACE_THRESHOLD)
           /\ source' = "heuristic"
    /\ pc' = "evaluated"
    /\ profiles' = ProfilesAfterPrior(_sender_email(msg), profiles)
    /\ UNCHANGED <<verdictVars, storeVars>>
    /\ UNCHANGED <<msg, user_email, weights, ai_result, min_confidence,
                   flag_threshold, surface_threshold, pre, fired, trace>>

\* step 2
AiFusion ==
    /\ pc = "evaluated"
    /\ IF ai_result.supplied /\ AiFlagBar(ai_result.fields, min_confidence)
       THEN /\ decision' = "flag"
            /\ score' = Max(score, AiForcedScore)
            /\ source' = "ai+heuristic"
       ELSE IF ai_result.supplied
       THEN /\ source' = "heuristic_with_ai_context"
            /\ UNCHANGED <<decision, score>>
       ELSE UNCHANGED <<decision, score, source>>
    /\ pc' = "fused"
    /\ UNCHANGED <<verdictVars, storeVars>>
    /\ UNCHANGED <<msg, user_email, weights, profiles, ai_result, min_confidence,
                   flag_threshold, surface_threshold, features, raw_score,
                   breakdown, prior, pre, fired, trace>>

\* step 3
OverrideRules ==
    /\ pc = "fused"
    /\ \E res \in {[decision |-> decision, score |-> score,
                    breakdown |-> breakdown, features |-> features,
                    source |-> source]} :
       \E out \in {OverrideDecision(RuleOrder, res)} :
           /\ decision' = out.res.decision
           /\ score' = out.res.score
           /\ breakdown' = out.res.breakdown
           /\ features' = out.res.features
           /\ source' = out.res.source
           /\ fired' = out.fired
           /\ trace' = out.trace
           /\ pre' = res
    /\ pc' = "done"
    /\ UNCHANGED <<verdictVars, storeVars>>
    /\ UNCHANGED <<msg, user_email, weights, profiles, ai_result, min_confidence,
                   flag_threshold, surface_threshold, raw_score, prior>>

Next == EvaluateEmail \/ AiFusion \/ OverrideRules

Spec == Init /\ [][Next]_vars

-----------------------------------------------------------------------------
(* heuristics.extract_features and heuristics.score_features called with a
   weight table and a sender profile of the caller's *)

\* a table with large, zero and missing weights; the bounds of the sender
\* prior are missing, so the defaults 12 and -12 apply
HeavyWeights ==
    [ to_me |-> 120, cc_me |-> -60, unread |-> 0, importance_high |-> 40,
      noreply_sender |-> -150, action_phrase_strong |-> 50,
      action_phrase_weak |-> 30, direct_salutation |-> 70,
      question_present |-> -35, deadline_present |-> 90, fyi_phrase |-> -80 ]

WeightTables == {HEURISTIC_WEIGHTS, HeavyWeights}

\* boss: always flagged or surfaced; pat: always ignored; others unknown
ScoreProfile ==
    [senders |->
        [s \in {"boss@corp.com", "pat@vendor.com"} |->
            IF s = "boss@corp.com" THEN SenderRecord(4, 3, 1)
            ELSE SenderRecord(MaxSeen, 0, 0)]]

ScoreToLists == {<<Other>>, <<Me>>, <<Other, Other, Me>>}

InitScore ==
    /\ msg \in {Message(from, to, cc, text, fl) :
                  from \in Senders, to \in ScoreToLists, cc \in CcLists,
                  text \in Texts, fl \in Flags}
    /\ user_email = Me
    /\ VerdictIdle
    /\ StoreIdle
    /\ weights \in WeightTables
    /\ profiles = ScoreProfile
    /\ ai_result = NoVerdict
    /\ min_confidence = DEFAULT_MIN_CONFIDENCE
    /\ flag_threshold = HEURISTIC_FLAG_THRESHOLD
    /\ surface_threshold = HEURISTIC_SURFACE_THRESHOLD
    /\ pc = "extract"
    /\ Unset

ExtractFeatures ==
    /\ pc = "extract"
    /\ features' = extract_features(msg, user_email, M365_VIP_SENDERS, clock)
    /\ pc' = "score"
    /\ UNCHANGED <<verdictVars, storeVars>>
    /\ UNCHANGED <<msg, user_email, weights, profiles, ai_result, min_confidence,
                   flag_threshold, surface_threshold, raw_score, score, breakdown,
                   prior, decision, source, pre, fired, trace>>

ScoreFeatures ==
    /\ pc = "score"
    /\ \E scoring \in {score_features(features, weights, profiles)} :
           /\ raw_score' = scoring.raw
           /\ score' = scoring.score
           /\ breakdown' = scoring.breakdown
           /\ prior' = scoring.prior
    /\ pc' = "scored"
    /\ profiles' = ProfilesAfterPrior(features.sender_email, profiles)
    /\ UNCHANGED <<verdictVars, storeVars>>
    /\ UNCHANGED <<msg, user_email, weights, ai_result, min_confidence,
                   flag_threshold, surface_threshold, features, decision, source,
                   pre, fired, trace>>

NextScore == ExtractFeatures \/ ScoreFeatures

SpecScore == InitScore /\ [][NextScore]_vars

\* both entry points: score_features on its own, and triage_email
SpecScoreTriage == (InitScore \/ Init) /\ [][NextScore \/ Next]_vars

-----------------------------------------------------------------------------
(* heuristics._bounded_sender_prior on its own *)

PriorSender == "pat@vendor.com"

SenderRecords ==
    {SenderRecord(seen, fc, sc) :
        seen \in 0..MaxSeen, fc \in 0..MaxSeen, sc \in 0..MaxSeen}

PriorProfiles ==
    {EmptyProfile, ProfileOf(PriorSender, EmptyRecord)}
    \cup {ProfileOf(PriorSender, rec) : rec \in SenderRecords}

\* tables holding only the two bounds of the prior, and the table without them
PriorWeightTables ==
    {EmptyRecord}
    \cup {[sender_history_max_boost |-> b, sender_history_max_penalty |-> p] :
            b \in {0, 6, DefaultMaxBoost}, p \in {DefaultMaxPenalty, -8, 2}}

InitPrior ==
    /\ msg \in {Message(from, <<Me>>, <<>>, {}, <<FALSE, "normal", FALSE>>) :
                  from \in {NoSender, PriorSender, "boss@corp.com"}}
    /\ user_email = Me
    /\ VerdictIdle
    /\ StoreIdle
    /\ weights \in PriorWeightTables
    /\ profiles \in PriorProfiles
    /\ ai_result = NoVerdict
    /\ min_confidence = DEFAULT_MIN_CONFIDENCE
    /\ flag_threshold = HEURISTIC_FLAG_THRESHOLD
    /\ surface_threshold = HEURISTIC_SURFACE_THRESHOLD
    /\ pc = "prior"
    /\ Unset

SenderPrior ==
    /\ pc = "prior"
    /\ prior' = _bounded_sender_prior(_sender_email(msg), profiles, weights)
    /\ pc' = "prior_done"
    /\ profiles' = ProfilesAfterPrior(_sender_email(msg), profiles)
    /\ UNCHANGED <<verdictVars, storeVars>>
    /\ UNCHANGED <<msg, user_email, weights, ai_result, min_confidence,
                   flag_threshold, surface_threshold, features, raw_score, score,
                   breakdown, decision, source, pre, fired, trace>>

SpecPrior == InitPrior /\ [][SenderPrior]_vars

-----------------------------------------------------------------------------
(* heuristics.classify_score on its own *)

Scores == ScoreFloor..ScoreCeiling

ThresholdValues ==
    {ScoreFloor, HEURISTIC_SURFACE_THRESHOLD, Rule4MinScore,
     HEURISTIC_FLAG_THRESHOLD, ScoreCeiling}

InitClassify ==
    /\ msg = Message(NoSender, <<>>, <<>>, {}, <<FALSE, "normal", FALSE>>)
    /\ user_email = Me
    /\ VerdictIdle
    /\ StoreIdle
    /\ weights = HEURISTIC_WEIGHTS
    /\ profiles = EmptyProfile
    /\ ai_result = NoVerdict
    /\ min_confidence = DEFAULT_MIN_CONFIDENCE
    /\ flag_threshold \in ThresholdValues
    /\ surface_threshold \in ThresholdValues
    /\ pc = "classify"
    /\ features = NoFeatures
    /\ raw_score = 0
    /\ score \in Scores
    /\ breakdown = <<>>
    /\ prior = 0
    /\ decision = "none"
    /\ source = "none"
    /\ pre = NoResult
    /\ fired = <<>>
    /\ trace = <<>>

ClassifyScore ==
    /\ pc = "classify"
    /\ decision' = classify_score(score, flag_threshold, surface_threshold)
    /\ pc' = "classified"
    /\ UNCHANGED <<verdictVars, storeVars>>
    /\ UNCHANGED <<msg, user_email, weights, profiles, ai_result, min_confidence,
                   flag_threshold, surface_threshold, features, raw_score, score,
                   breakdown, prior, source, pre, fired, trace>>

SpecClassify == InitClassify /\ [][ClassifyScore]_vars

-----------------------------------------------------------------------------
(* The verdict handed to triage_email, classify.compute_final_flag and
   rules.is_flag_candidate, complete or with fields missing *)

VerdictKeys == {"classification", "confidence", "asks_me_specifically"}

\* the verdict dict holding the keys of D
VerdictFields(D, c, conf, asks) ==
    [k \in D |-> CASE k = "classification" -> c
                   [] k = "confidence" -> conf
                   [] k = "asks_me_specifically" -> asks]

AnyVerdicts ==
    {NoVerdict}
    \cup { [supplied |-> TRUE, fields |-> VerdictFields(D, c, conf, asks)] :
             D \in SUBSET VerdictKeys, c \in {"action_request", "fyi"},
             conf \in {0, DEFAULT_MIN_CONFIDENCE, 100}, asks \in BOOLEAN }

\* the result dicts by the keys the program reads again
SkippedResult(skip_reason) ==
    [classification |-> IF skip_reason = "empty_body" THEN "unknown"
                        ELSE IF skip_reason = "noise_pattern"
                        THEN "spam_or_noise" ELSE "unknown",
     should_flag |-> FALSE, confidence |-> 0, asks_me_specifically |-> FALSE,
     model_should_flag |-> FALSE, final_should_flag |-> FALSE,
     skipped |-> TRUE, skip_reason |-> skip_reason]

ErrorResult(e) ==
    [classification |-> "unknown", should_flag |-> FALSE, confidence |-> 0,
     asks_me_specifically |-> FALSE, model_should_flag |-> FALSE,
     final_should_flag |-> FALSE, error |-> e]

\* the placeholders classify_email and classify_emails put where the AI gave
\* no result
Placeholders ==
    {[supplied |-> TRUE, fields |-> SkippedResult(skip_reason)] :
        skip_reason \in {"empty_body", "noise_pattern", "max_ai_limit"}}
    \cup {[supplied |-> TRUE, fields |-> ErrorResult("Exception")]}

\* the verdict v with the model's own flag
WithShouldFlag(v, should_flag) ==
    [supplied |-> v.supplied,
     fields |-> [k \in DOMAIN v.fields \cup {"should_flag"} |->
                    IF k = "should_flag" THEN should_flag ELSE v.fields[k]]]

FlaggedVerdicts ==
    {WithShouldFlag(v, sf) : v \in AnyVerdicts \ {NoVerdict}, sf \in BOOLEAN}

\* min_confidence in [0,1], in percent
MinConfidences == {0, 1, DEFAULT_MIN_CONFIDENCE, 100}

InitVerdict ==
    /\ msg \in {Message("pat@vendor.com", to, <<>>, text,
                         <<FALSE, "normal", FALSE>>) :
                  to \in {<<Me>>, <<Other>>},
                  text \in {{}, {"please review"}, {"notification"}}}
    /\ user_email = Me
    /\ VerdictIdle
    /\ StoreIdle
    /\ weights = HEURISTIC_WEIGHTS
    /\ profiles = EmptyProfile
    /\ ai_result \in AnyVerdicts \cup FlaggedVerdicts \cup Placeholders
    /\ min_confidence \in MinConfidences
    /\ flag_threshold = HEURISTIC_FLAG_THRESHOLD
    /\ surface_threshold = HEURISTIC_SURFACE_THRESHOLD
    /\ pc = "start"
    /\ Unset

\* classify.compute_final_flag, which takes a dict
ComputeFinalFlag ==
    /\ ~final_flag.called
    /\ ai_result.supplied
    /\ final_flag' = Returned(compute_final_flag(ai_result.fields,
                                                 min_confidence))
    /\ UNCHANGED <<triageVars, flag_candidate, storeVars>>

\* rules.is_flag_candidate
IsFlagCandidate ==
    /\ ~flag_candidate.called
    /\ flag_candidate' =
           Returned(is_flag_candidate(msg, ai_result, min_confidence,
                                      user_email))
    /\ UNCHANGED <<triageVars, final_flag, storeVars>>

NextVerdict == Next \/ ComputeFinalFlag \/ IsFlagCandidate

SpecVerdict == InitVerdict /\ [][NextVerdict]_vars

-----------------------------------------------------------------------------
(* Sender memory: heuristics.update_sender_profiles *)

\* Python's None where a string is expected
PyNone == "None"

\* datetime.isoformat() of the clock reading t
isoformat(t) == ToString(t)

\* a record created with the sighting already counted
NewRecordSeenOnce ==
    [seen |-> 1, flag_count |-> 0, surface_count |-> 0, ignore_count |-> 0,
     last_seen |-> PyNone]

\* the record setdefault() creates on the first sighting of a sender
NewRecord ==
    [seen |-> 0, flag_count |-> 0, surface_count |-> 0, ignore_count |-> 0,
     last_seen |-> PyNone]

\* a surface decision counted with the ignored ones
DecisionCounterWithoutSurface(d) ==
    IF d = "flag" THEN "flag_count" ELSE "ignore_count"

\* the if / elif / else on the decision
DecisionCounter(d) ==
    IF d = "flag" THEN "flag_count"
    ELSE IF d = "surface" THEN "surface_count"
    ELSE "ignore_count"

\* the body of the loop once rec is known
UpdateRecord(rec, d, now_iso) ==
    LET counter == DecisionCounter(d)
    IN  [f \in DOMAIN rec \cup {"seen", counter, "last_seen"} |->
            IF f = "seen" THEN Get(rec, "seen", 0) + 1
            ELSE IF f = counter THEN Get(rec, counter, 0) + 1
            ELSE IF f = "last_seen" THEN now_iso
            ELSE rec[f]]

\* one iteration of the loop over evaluated_messages
UpdateOne(senders, m, now_iso) ==
    LET sender == _sender_email(m)
        triage == Get(m, "triage", EmptyRecord)
        d == Get(triage, "decision", "ignore")
        rec == IF sender \in DOMAIN senders THEN senders[sender] ELSE NewRecord
    IN  IF sender = "" THEN senders
        ELSE [a \in DOMAIN senders \cup {sender} |->
                 IF a = sender THEN UpdateRecord(rec, d, now_iso)
                 ELSE senders[a]]

RECURSIVE UpdateAll(_, _, _, _)
UpdateAll(senders, msgs, i, now_iso) ==
    IF i > Len(msgs) THEN senders
    ELSE UpdateAll(UpdateOne(senders, msgs[i], now_iso), msgs, i + 1, now_iso)

update_sender_profiles(profs, evaluated_messages, now_iso) ==
    LET senders == Get(profs, "senders", EmptyRecord)
        updated == UpdateAll(senders, evaluated_messages, 1, now_iso)
    IN  [k \in DOMAIN profs \cup {"senders"} |->
            IF k = "senders" THEN updated ELSE profs[k]]

\* a run: its position, its in-memory profile, the profile as loaded and
\* its batch of messages
Run(at, mem, batch) ==
    [pc |-> at, mem |-> mem, loaded |-> mem, batch |-> batch]

\* what msg["triage"] holds: nothing, or a result with its decision
Triages ==
    {EmptyRecord} \cup {[decision |-> d] : d \in {"flag", "surface", "ignore"}}

\* messages as update_sender_profiles reads them: the sender and the triage
UpdateMessages ==
    {[from |-> a, triage |-> t] :
        a \in {NoSender, "pat@vendor.com", "boss@corp.com"}, t \in Triages}

SeqsUpTo(S, n) == UNION {[1..k -> S] : k \in 0..n}

UpdateProfiles ==
    {EmptyProfile, ProfileOf("pat@vendor.com", EmptyRecord),
     ProfileOf("pat@vendor.com", SenderRecord(2, 1, 0)), ScoreProfile}

InitUpdate ==
    /\ msg = Message(NoSender, <<>>, <<>>, {}, <<FALSE, "normal", FALSE>>)
    /\ user_email = Me
    /\ VerdictIdle
    /\ weights = HEURISTIC_WEIGHTS
    /\ profiles = EmptyProfile
    /\ ai_result = NoVerdict
    /\ min_confidence = DEFAULT_MIN_CONFIDENCE
    /\ flag_threshold = HEURISTIC_FLAG_THRESHOLD
    /\ surface_threshold = HEURISTIC_SURFACE_THRESHOLD
    /\ pc = "batch"
    /\ Unset
    /\ clock = 24
    /\ file = NoFile
    /\ hist = <<>>
    /\ runs \in {<<Run("evaluated", mem, batch)>> :
                   mem \in UpdateProfiles,
                   batch \in SeqsUpTo(UpdateMessages, MaxBatch)}

\* heuristics.update_sender_profiles on the batch of run r; the dict is
\* updated in place
UpdateSenderProfiles(r) ==
    /\ runs[r].pc = "evaluated"
    /\ runs' = [runs EXCEPT ![r].pc = "updated",
                            ![r].mem = update_sender_profiles(
                                           runs[r].mem, runs[r].batch,
                                           isoformat(clock))]
    /\ UNCHANGED <<triageVars, verdictVars, clock, file, hist>>

SpecUpdate == InitUpdate /\ [][\E r \in DOMAIN runs : UpdateSenderProfiles(r)]_vars

-----------------------------------------------------------------------------
(* Sender memory: heuristics.save_sender_profiles and load_sender_profiles.
   The text of the file is modelled by its JSON structure: its shape, the
   keys of the top-level object, the keys of "senders" and one member
   <<sender, field, value>> per field of a sender record. *)

JsonInt(n) == [t |-> "int", n |-> n, s |-> ""]
JsonStr(str) == [t |-> "str", n |-> 0, s |-> str]
JsonNull == [t |-> "null", n |-> 0, s |-> ""]

\* the encoding of the value v of field f: None is null, last_seen a string
ToJson(f, v) ==
    IF f = "last_seen" THEN (IF v = PyNone THEN JsonNull ELSE JsonStr(v))
    ELSE JsonInt(v)

\* null decoded as the empty string
FromJsonNullAsEmpty(j) ==
    IF j.t = "int" THEN j.n ELSE IF j.t = "null" THEN "" ELSE j.s

FromJson(j) ==
    IF j.t = "int" THEN j.n ELSE IF j.t = "null" THEN PyNone ELSE j.s

\* value is the JSON type of what the key "senders" holds
JsonText(shape, keys, senders, members) ==
    [shape |-> shape, keys |-> keys, senders |-> senders, members |-> members,
     value |-> "object"]

\* text that is not JSON, and JSON that is not an object
Garbage == JsonText("invalid", {}, {}, {})
JsonArray == JsonText("array", {}, {}, {})

\* bytes that are not UTF-8
Undecodable == JsonText("undecodable", {}, {}, {})

\* the text {"senders": null}, and an object without the key
SendersNull == [JsonText("object", {"senders"}, {}, {}) EXCEPT !.value = "null"]
NoSendersKey == JsonText("object", {"version"}, {}, {})

\* a decoded JSON value that is not an object, by its JSON type
NotAMapping(type) == [json |-> type]

IsMapping(v) == "json" \notin DOMAIN v

\* an exception leaving a call
Raised(e) == [raised |-> e]

HasRaised(outcome) == "raised" \in DOMAIN outcome

\* json.dumps(profiles, indent=2, ensure_ascii=False)
json_dumps(profs) ==
    LET senders == Get(profs, "senders", EmptyRecord)
    IN  JsonText("object", DOMAIN profs, DOMAIN senders,
                 UNION {{<<a, f, ToJson(f, senders[a][f])>> :
                            f \in DOMAIN senders[a]} : a \in DOMAIN senders})

\* json.loads(text) of an object
json_loads(text) ==
    [k \in text.keys |->
        IF text.value # "object" THEN NotAMapping(text.value)
        ELSE
        [a \in text.senders |->
            [f \in {m[2] : m \in {n \in text.members : n[1] = a}} |->
                FromJson((CHOOSE m \in text.members :
                              m[1] = a /\ m[2] = f)[3])]]]

File(text) == [kind |-> "file", text |-> text]

\* the test on path.exists() inverted: nothing is ever read
load_sender_profiles_never_reading(f, readable) == EmptyProfile

\* load_sender_profiles(path); readable is false when read_text raises
\* OSError.  read_text decodes the bytes as UTF-8: the UnicodeDecodeError of
\* bytes that are not is a ValueError, which the except clause does not name
load_sender_profiles(f, readable) ==
    IF f.kind = "absent" THEN EmptyProfile
    ELSE IF ~readable THEN EmptyProfile
    ELSE IF f.text.shape = "undecodable" THEN Raised("UnicodeDecodeError")
    ELSE IF f.text.shape = "invalid" THEN EmptyProfile
    ELSE IF f.text.shape # "object" \/ "senders" \notin f.text.keys
         THEN EmptyProfile
    ELSE json_loads(f.text)

\* what write_text can do: write the text; raise OSError before the file is
\* opened, which leaves the path as it was; raise OSError after the file was
\* opened and truncated, which leaves a partial text
WriteOutcomes == {"written", "refused", "truncated"}

\* the path after save_sender_profiles(profiles, path); the OSError is dropped
save_sender_profiles(profs, f, outcome) ==
    CASE outcome = "written" -> File(json_dumps(profs))
      [] outcome = "refused" -> f
      [] outcome = "truncated" -> File(Garbage)

\* every message of the batch has its triage
AllEvaluated(batch) == \A i \in DOMAIN batch : "triage" \in DOMAIN batch[i]

\* load_sender_profiles by run r; in a sequence of runs a run starts when
\* the run before it has saved
LoadSenderProfiles(r, sequential) ==
    /\ runs[r].pc = "idle"
    /\ sequential => \A q \in 1..(r - 1) : runs[q].pc = "saved"
    /\ \E readable \in IF file.kind = "absent" THEN {TRUE} ELSE BOOLEAN :
       \E p \in {load_sender_profiles(file, readable)} :
           /\ runs' = [runs EXCEPT ![r].pc = IF HasRaised(p) THEN "raised"
                                             ELSE IF AllEvaluated(runs[r].batch)
                                             THEN "evaluated" ELSE "loaded",
                                   ![r].mem = IF HasRaised(p) THEN @ ELSE p,
                                   ![r].loaded = IF HasRaised(p) THEN @ ELSE p]
           /\ hist' = Append(hist, [run |-> r, op |-> "load",
                                    outcome |-> IF file.kind = "absent"
                                                THEN "absent"
                                                ELSE IF ~readable
                                                THEN "unreadable"
                                                ELSE IF HasRaised(p)
                                                THEN p.raised
                                                ELSE "read",
                                    was |-> file, became |-> file])
    /\ UNCHANGED <<triageVars, verdictVars, clock, file>>

\* save_sender_profiles by run r
SaveSenderProfiles(r) ==
    /\ runs[r].pc = "updated"
    /\ \E outcome \in WriteOutcomes :
           /\ file' = save_sender_profiles(runs[r].mem, file, outcome)
           /\ hist' = Append(hist, [run |-> r, op |-> "save",
                                    outcome |-> outcome, was |-> file,
                                    became |-> save_sender_profiles(
                                                   runs[r].mem, file, outcome)])
    /\ runs' = [runs EXCEPT ![r].pc = "saved"]
    /\ UNCHANGED <<triageVars, verdictVars, clock>>

\* save_sender_profiles(p, path) and then load_sender_profiles(path)

StoredProfiles ==
    {EmptyProfile, ProfileOf("pat@vendor.com", EmptyRecord),
     ProfileOf("boss@corp.com", NewRecord), ScoreProfile}
    \cup {ProfileOf("pat@vendor.com", rec) : rec \in SenderRecords}

\* what the path holds before the save
StoreFiles ==
    {NoFile, File(Garbage), File(JsonArray), File(json_dumps(ScoreProfile))}

InitStore ==
    /\ msg = Message(NoSender, <<>>, <<>>, {}, <<FALSE, "normal", FALSE>>)
    /\ user_email = Me
    /\ VerdictIdle
    /\ weights = HEURISTIC_WEIGHTS
    /\ profiles = EmptyProfile
    /\ ai_result = NoVerdict
    /\ min_confidence = DEFAULT_MIN_CONFIDENCE
    /\ flag_threshold = HEURISTIC_FLAG_THRESHOLD
    /\ surface_threshold = HEURISTIC_SURFACE_THRESHOLD
    /\ pc = "batch"
    /\ Unset
    /\ clock = 0
    /\ file \in StoreFiles
    /\ hist = <<>>
    /\ runs \in {<<Run("updated", p, <<>>), Run("idle", EmptyProfile, <<>>)>> :
                   p \in StoredProfiles}

NextStore ==
    \E r \in DOMAIN runs : SaveSenderProfiles(r) \/ LoadSenderProfiles(r, TRUE)

SpecStore == InitStore /\ [][NextStore]_vars

-----------------------------------------------------------------------------
(* One batch run: the profile is loaded, the messages of the batch are
   evaluated in any order and interleaving against the in-memory profile,
   the profile is updated from the decisions and saved *)

NoScoring == [raw |-> 0, score |-> 0, breakdown |-> <<>>, prior |-> 0]

\* a run that evaluates its batch: stage, work and at hold, per message, the
\* position of its evaluation, what it computed so far and the clock reading
\* its features were extracted at
BatchRun(batch) ==
    [pc |-> "idle", mem |-> EmptyProfile, loaded |-> EmptyProfile,
     batch |-> batch,
     stage |-> [i \in DOMAIN batch |-> "pending"],
     work |-> [i \in DOMAIN batch |->
                  [features |-> NoFeatures, scoring |-> NoScoring]],
     at |-> [i \in DOMAIN batch |-> 0]]

\* msg["triage"] = result
WithTriage(m, result) ==
    [k \in DOMAIN m \cup {"triage"} |-> IF k = "triage" THEN result ELSE m[k]]

\* evaluate_email, first line: extract_features
ExtractMessage(r, i) ==
    /\ runs[r].pc = "loaded"
    /\ runs[r].stage[i] = "pending"
    /\ runs' = [runs EXCEPT
                   ![r].stage[i] = "extracted",
                   ![r].at[i] = clock,
                   ![r].work[i].features =
                       extract_features(runs[r].batch[i], user_email,
                                        M365_VIP_SENDERS, clock)]
    /\ UNCHANGED <<triageVars, verdictVars, clock, file, hist>>

\* evaluate_email, second line: score_features against the profile in memory
ScoreMessage(r, i) ==
    /\ runs[r].pc = "loaded"
    /\ runs[r].stage[i] = "extracted"
    /\ runs' = [runs EXCEPT
                   ![r].stage[i] = "scored",
                   ![r].work[i].scoring =
                       score_features(runs[r].work[i].features,
                                      HEURISTIC_WEIGHTS, runs[r].mem),
                   ![r].mem =
                       ProfilesAfterPrior(runs[r].work[i].features.sender_email,
                                          runs[r].mem)]
    /\ UNCHANGED <<triageVars, verdictVars, clock, file, hist>>

\* the rest of evaluate_email and the override rules of triage_email; the
\* evaluation of the batch ends with its last message
DecideMessage(r, i) ==
    /\ runs[r].pc = "loaded"
    /\ runs[r].stage[i] = "scored"
    /\ \E result \in {OverrideDecision(RuleOrder,
                          Evaluation(runs[r].work[i].features,
                                     runs[r].work[i].scoring)).res} :
           runs' = [runs EXCEPT
                      ![r].stage[i] = "decided",
                      ![r].batch[i] = WithTriage(runs[r].batch[i], result),
                      ![r].pc = IF \A j \in DOMAIN runs[r].batch \ {i} :
                                      runs[r].stage[j] = "decided"
                                THEN "evaluated" ELSE "loaded"]
    /\ UNCHANGED <<triageVars, verdictVars, clock, file, hist>>

\* time passes
Tick ==
    /\ clock + TickHours <= MaxClock
    /\ clock' = clock + TickHours
    /\ UNCHANGED <<triageVars, verdictVars, file, runs, hist>>

\* pat was flagged three times; boss twice, one sighting short of a prior
BatchProfile ==
    [senders |->
        [a \in {"boss@corp.com", "pat@vendor.com"} |->
            IF a = "boss@corp.com" THEN SenderRecord(2, 2, 0)
            ELSE SenderRecord(3, 3, 0)]]

BatchFiles == {NoFile, File(json_dumps(BatchProfile))}

BatchMessages ==
    { Received(Message("pat@vendor.com", <<Me>>, <<>>, {"please review"},
                       <<FALSE, "normal", FALSE>>), Timestamp(0)),
      Received(Message("boss@corp.com", <<Me, Other>>, <<>>, {"dan,", "by eod"},
                       <<FALSE, "high", TRUE>>), Timestamp(0)),
      Received(Message("boss@corp.com", <<Other>>, <<Other, MeMixedCase>>,
                       {"fyi only"}, <<FALSE, "normal", FALSE>>),
               BadTimestamp) }

InitBatch ==
    /\ msg = Message(NoSender, <<>>, <<>>, {}, <<FALSE, "normal", FALSE>>)
    /\ user_email = Me
    /\ VerdictIdle
    /\ weights = HEURISTIC_WEIGHTS
    /\ profiles = EmptyProfile
    /\ ai_result = NoVerdict
    /\ min_confidence = DEFAULT_MIN_CONFIDENCE
    /\ flag_threshold = HEURISTIC_FLAG_THRESHOLD
    /\ surface_threshold = HEURISTIC_SURFACE_THRESHOLD
    /\ pc = "batch"
    /\ Unset
    /\ clock = 0
    /\ file \in BatchFiles
    /\ hist = <<>>
    /\ runs \in {<<BatchRun(batch)>> :
                   batch \in SeqsUpTo(BatchMessages, MaxBatch)}

NextBatch ==
    \/ Tick
    \/ \E r \in DOMAIN runs :
           \/ LoadSenderProfiles(r, TRUE)
           \/ \E i \in DOMAIN runs[r].batch :
                  ExtractMessage(r, i) \/ ScoreMessage(r, i) \/ DecideMessage(r, i)
           \/ UpdateSenderProfiles(r)
           \/ SaveSenderProfiles(r)

SpecBatch == InitBatch /\ [][NextBatch]_vars

-----------------------------------------------------------------------------
(* Batch runs on the same path, each doing load_sender_profiles,
   update_sender_profiles and save_sender_profiles: one after the other
   (SpecRuns) or as concurrent processes (SpecConcurrent).  The messages of
   a batch come with their decisions. *)

RunMessages ==
    { [from |-> "pat@vendor.com", triage |-> [decision |-> "flag"]],
      [from |-> "pat@vendor.com", triage |-> [decision |-> "ignore"]],
      [from |-> "boss@corp.com", triage |-> [decision |-> "surface"]] }

InitRuns ==
    /\ msg = Message(NoSender, <<>>, <<>>, {}, <<FALSE, "normal", FALSE>>)
    /\ user_email = Me
    /\ VerdictIdle
    /\ weights = HEURISTIC_WEIGHTS
    /\ profiles = EmptyProfile
    /\ ai_result = NoVerdict
    /\ min_confidence = DEFAULT_MIN_CONFIDENCE
    /\ flag_threshold = HEURISTIC_FLAG_THRESHOLD
    /\ surface_threshold = HEURISTIC_SURFACE_THRESHOLD
    /\ pc = "batch"
    /\ Unset
    /\ clock = 0
    /\ file \in BatchFiles
    /\ hist = <<>>
    /\ runs \in {<<Run("idle", EmptyProfile, b1), Run("idle", EmptyProfile, b2)>> :
                   b1 \in SeqsUpTo(RunMessages, MaxBatch),
                   b2 \in SeqsUpTo(RunMessages, MaxBatch)}

NextRuns ==
    \E r \in DOMAIN runs :
        \/ LoadSenderProfiles(r, TRUE)
        \/ UpdateSenderProfiles(r)
        \/ SaveSenderProfiles(r)

SpecRuns == InitRuns /\ [][NextRuns]_vars

NextConcurrent ==
    \E r \in DOMAIN runs :
        \/ LoadSenderProfiles(r, FALSE)
        \/ UpdateSenderProfiles(r)
        \/ SaveSenderProfiles(r)

SpecConcurrent == InitRuns /\ [][NextConcurrent]_vars

-----------------------------------------------------------------------------
(* What a run does with the profile load_sender_profiles returned: the
   lookup of _bounded_sender_prior and the update of the counters.  A call
   either returns or lets an exception out. *)

\* _bounded_sender_prior(sender_email, profiles, weights) as a call:
\* senders.get() on a value that has no get() is an AttributeError
SenderPriorCall(sender_email, profs, w) ==
    IF sender_email = "" \/ DOMAIN profs = {} THEN Returned(0)
    ELSE IF ~IsMapping(Get(profs, "senders", EmptyRecord))
         THEN Raised("AttributeError")
    ELSE Returned(_bounded_sender_prior(sender_email, profs, w))

\* update_sender_profiles(profiles, evaluated_messages) as a call:
\* senders.setdefault() is reached by the first message that has a sender
UpdateCall(profs, evaluated_messages, now_iso) ==
    IF /\ ~IsMapping(Get(profs, "senders", EmptyRecord))
       /\ \E i \in DOMAIN evaluated_messages :
              _sender_email(evaluated_messages[i]) # ""
    THEN Raised("AttributeError")
    ELSE Returned(update_sender_profiles(profs, evaluated_messages, now_iso))

OutcomeName(outcome) ==
    IF HasRaised(outcome) THEN outcome.raised ELSE "returned"

\* the prior of one sender looked up in the profile run r loaded
SenderPriorOnLoaded(r) ==
    /\ runs[r].pc = "evaluated"
    /\ \A k \in DOMAIN hist : hist[k].op # "prior"
    /\ \E a \in {"pat@vendor.com", "boss@corp.com"} :
           hist' = Append(hist, [run |-> r, op |-> "prior",
                                 outcome |-> OutcomeName(SenderPriorCall(
                                                 a, runs[r].mem, weights)),
                                 was |-> file, became |-> file])
    /\ UNCHANGED <<triageVars, verdictVars, clock, file, runs>>

\* update_sender_profiles on the profile run r loaded
UpdateLoaded(r) ==
    /\ runs[r].pc = "evaluated"
    /\ \E o \in {UpdateCall(runs[r].mem, runs[r].batch, isoformat(clock))} :
           /\ runs' = [runs EXCEPT ![r].pc = IF HasRaised(o) THEN "raised"
                                             ELSE "updated",
                                   ![r].mem = IF HasRaised(o) THEN @
                                              ELSE o.value]
           /\ hist' = Append(hist, [run |-> r, op |-> "update",
                                    outcome |-> OutcomeName(o),
                                    was |-> file, became |-> file])
    /\ UNCHANGED <<triageVars, verdictVars, clock, file>>

\* what the path can hold when a run starts
LoadFiles ==
    StoreFiles \cup {File(Undecodable), File(SendersNull), File(NoSendersKey)}

InitLoad ==
    /\ msg = Message(NoSender, <<>>, <<>>, {}, <<FALSE, "normal", FALSE>>)
    /\ user_email = Me
    /\ VerdictIdle
    /\ weights = HEURISTIC_WEIGHTS
    /\ profiles = EmptyProfile
    /\ ai_result = NoVerdict
    /\ min_confidence = DEFAULT_MIN_CONFIDENCE
    /\ flag_threshold = HEURISTIC_FLAG_THRESHOLD
    /\ surface_threshold = HEURISTIC_SURFACE_THRESHOLD
    /\ pc = "batch"
    /\ Unset
    /\ clock = 0
    /\ file \in LoadFiles
    /\ hist = <<>>
    /\ runs \in {<<Run("idle", EmptyProfile, b)>> :
                   b \in SeqsUpTo(RunMessages, MaxBatch)}

NextLoad ==
    \E r \in DOMAIN runs :
        \/ LoadSenderProfiles(r, TRUE)
        \/ SenderPriorOnLoaded(r)
        \/ UpdateLoaded(r)

SpecLoad == InitLoad /\ [][NextLoad]_vars

-----------------------------------------------------------------------------
(* heuristics._is_recent as a call *)

\* an ISO timestamp without an offset: fromisoformat() returns a naive
\* datetime for it
NaiveTimestamp(t) == [kind |-> "naive", at |-> t]

\* now is timezone-aware: subtracting a naive datetime from it is a
\* TypeError, raised after the try block
IsRecentCall(received_at, now) ==
    IF received_at.kind = "naive" THEN Raised("TypeError")
    ELSE Returned(_is_recent(received_at, now))

\* the hours on the clock at which a message can have been received: from
\* before the first evaluation to more than RecentHours after the last
ReceivedHours == 0..(MaxClock + RecentHours + 1)

ReceivedAt ==
    {NoTimestamp, BadTimestamp}
    \cup {Timestamp(t) : t \in ReceivedHours}
    \cup {NaiveTimestamp(t) : t \in ReceivedHours}

InitRecent ==
    /\ msg \in {Received(Message("pat@vendor.com", <<Me>>, <<>>, {},
                                  <<FALSE, "normal", FALSE>>), ts) :
                    ts \in ReceivedAt}
    /\ user_email = Me
    /\ VerdictIdle
    /\ weights = HEURISTIC_WEIGHTS
    /\ profiles = EmptyProfile
    /\ ai_result = NoVerdict
    /\ min_confidence = DEFAULT_MIN_CONFIDENCE
    /\ flag_threshold = HEURISTIC_FLAG_THRESHOLD
    /\ surface_threshold = HEURISTIC_SURFACE_THRESHOLD
    /\ pc = "recent"
    /\ Unset
    /\ clock \in {RecentHours, MaxClock}
    /\ file = NoFile
    /\ runs = <<>>
    /\ hist = <<>>

\* _is_recent(email.get("received_at")) at the clock reading
IsRecent ==
    /\ pc = "recent"
    /\ \E o \in {IsRecentCall(msg.received_at, clock)} :
           /\ pc' = IF HasRaised(o) THEN "raised" ELSE "returned"
           /\ hist' = Append(hist, [run |-> 0, op |-> "is_recent",
                                    outcome |-> IF HasRaised(o) THEN o.raised
                                                ELSE IF o.value THEN "True"
                                                ELSE "False",
                                    was |-> file, became |-> file])
    /\ UNCHANGED <<verdictVars, clock, file, runs>>
    /\ UNCHANGED <<msg, user_email, weights, profiles, ai_result, min_confidence,
                   flag_threshold, surface_threshold, features, raw_score, score,
                   breakdown, prior, decision, source, pre, fired, trace>>

SpecRecent == InitRecent /\ [][IsRecent]_vars

-----------------------------------------------------------------------------
(* heuristics.extract_features on a message dict in which fields are missing
   or hold None.  The message of the model carries every field; state says,
   field by field, whether the dict has it, lacks it or holds None for it.
   The subject and the preview of these messages are blank: the phrases of
   the text are those of body_text. *)

RawFields ==
    {"from", "to", "cc", "subject", "body_text", "body_preview",
     "received_at", "is_read", "importance", "has_attachments"}

FieldStates == {"present", "missing", "null"}

RawMessage(m, state) == [message |-> m, state |-> state]

\* the values the .get(key, default) and `or default` expressions of
\* extract_features and its helpers read from the dict
Read(raw) ==
    LET has(f) == raw.state[f] = "present"
        m == raw.message
    IN  [from |-> IF has("from") THEN m.from ELSE "",
         to |-> IF has("to") THEN m.to ELSE <<>>,
         cc |-> IF has("cc") THEN m.cc ELSE <<>>,
         text |-> IF has("body_text") THEN m.text ELSE {},
         is_read |-> IF has("is_read") THEN m.is_read ELSE FALSE,
         importance |-> IF has("importance") THEN m.importance ELSE PyNone,
         has_attachments |-> IF has("has_attachments") THEN m.has_attachments
                             ELSE FALSE,
         received_at |-> IF has("received_at") THEN m.received_at
                         ELSE NoTimestamp]

\* extract_features as a call: _recipient_role iterates email.get("to", [])
\* and email.get("cc", []), and the default stands in for a missing key
\* only; iterating None is a TypeError.  With no user address the lists are
\* not read
ExtractFeaturesCall(raw, u, vip_senders, now) ==
    IF Lower(u) # "" /\ (raw.state["to"] = "null" \/ raw.state["cc"] = "null")
    THEN Raised("TypeError")
    ELSE IF HasRaised(IsRecentCall(Read(raw).received_at, now))
    THEN IsRecentCall(Read(raw).received_at, now)
    ELSE Returned(extract_features(Read(raw), u, vip_senders, now))

RawBaseMessages ==
    { Received(Message("pat@vendor.com", <<Me>>, <<Other>>,
                       {"please review", "?"}, <<TRUE, "high", TRUE>>),
               Timestamp(0)),
      Received(Message("boss@corp.com", <<Other>>, <<Me>>,
                       {"hi dan,", "by friday"}, <<TRUE, "high", TRUE>>),
               Timestamp(0)) }

InitExtract ==
    /\ msg \in {RawMessage(m, st) : m \in RawBaseMessages,
                                   st \in [RawFields -> FieldStates]}
    /\ user_email \in {Me, ""}
    /\ VerdictIdle
    /\ StoreIdle
    /\ weights = HEURISTIC_WEIGHTS
    /\ profiles = EmptyProfile
    /\ ai_result = NoVerdict
    /\ min_confidence = DEFAULT_MIN_CONFIDENCE
    /\ flag_threshold = HEURISTIC_FLAG_THRESHOLD
    /\ surface_threshold = HEURISTIC_SURFACE_THRESHOLD
    /\ pc = "extract"
    /\ Unset

ExtractFromRaw ==
    /\ pc = "extract"
    /\ \E o \in {ExtractFeaturesCall(msg, user_email, M365_VIP_SENDERS, clock)} :
           /\ features' = IF HasRaised(o) THEN features ELSE o.value
           /\ pc' = IF HasRaised(o) THEN "raised" ELSE "extracted"
           /\ hist' = Append(hist, [run |-> 0, op |-> "extract",
                                    outcome |-> OutcomeName(o),
                                    was |-> file, became |-> file])
    /\ UNCHANGED <<verdictVars, clock, file, runs>>
    /\ UNCHANGED <<msg, user_email, weights, profiles, ai_result, min_confidence,
                   flag_threshold, surface_threshold, raw_score, score, breakdown,
                   prior, decision, source, pre, fired, trace>>

SpecExtract == InitExtract /\ [][ExtractFromRaw]_vars

-----------------------------------------------------------------------------
(* classify.should_skip_email: the pre-filter of the AI classification *)

\* classify.NOISE_PATTERNS, searched in the subject and the sender address:
\* what they match among the phrases and addresses of the model
NOISE_PATTERNS(p) ==
    p \in {"noreply@vendor.com", "notification", "newsletter", "unsubscribe"}

\* body_text and body_preview: None, empty, white space, or a text
Bodies == {PyNone, "", "   ", "can you send the report?"}

\* msg.get(key) or ""
OrEmpty(v) == IF v = PyNone THEN "" ELSE v

\* str.strip() on the bodies of the model
Strip(v) == IF v = "   " THEN "" ELSE v

\* a normalized message as the classifier reads it; subject is the set of
\* phrases found in it
Mail(from, to, subject, body_text, body_preview) ==
    [from |-> from, to |-> to, subject |-> subject, body_text |-> body_text,
     body_preview |-> body_preview]

\* the To test comparing the addresses as they are written
AddressedToExactly(u, to_list) ==
    u # PyNone /\ u # "" /\ u \in SeqRange(to_list)

\* user_email and user_email.lower() in [e.lower() for e in to_list]
AddressedTo(u, to_list) ==
    u # PyNone /\ u # "" /\ Lower(u) \in {Lower(e) : e \in SeqRange(to_list)}

\* classify.should_skip_email: (should_skip, reason)
should_skip_email(m, u) ==
    LET body_text == OrEmpty(m.body_text)
        body_preview == OrEmpty(m.body_preview)
    IN  IF Strip(body_text) = "" /\ Strip(body_preview) = ""
        THEN <<TRUE, "empty_body">>
        ELSE IF /\ \/ Hits(m.subject, NOISE_PATTERNS)
                   \/ NOISE_PATTERNS(Lower(m.from))
                /\ ~AddressedTo(u, m.to)
        THEN <<TRUE, "noise_pattern">>
        ELSE <<FALSE, "">>

Mails ==
    {Mail(from, to, subject, body_text, body_preview) :
        from \in {"", "pat@vendor.com", "noreply@vendor.com"},
        to \in {<<>>, <<Me>>, <<MeMixedCase>>, <<Other>>, <<Other, Me>>},
        subject \in {{}, {"urgent"}, {"notification"}, {"urgent", "newsletter"}},
        body_text \in Bodies, body_preview \in Bodies}

InitSkip ==
    /\ msg \in Mails
    /\ user_email \in {PyNone, "", Me, MeMixedCase}
    /\ VerdictIdle
    /\ StoreIdle
    /\ weights = HEURISTIC_WEIGHTS
    /\ profiles = EmptyProfile
    /\ ai_result = NoVerdict
    /\ min_confidence = DEFAULT_MIN_CONFIDENCE
    /\ flag_threshold = HEURISTIC_FLAG_THRESHOLD
    /\ surface_threshold = HEURISTIC_SURFACE_THRESHOLD
    /\ pc = "skip"
    /\ Unset

ShouldSkipEmail ==
    /\ pc = "skip"
    /\ pc' = "returned"
    /\ hist' = Append(hist, [run |-> 0, op |-> "should_skip_email",
                             outcome |-> should_skip_email(msg, user_email),
                             was |-> file, became |-> file])
    /\ UNCHANGED <<verdictVars, clock, file, runs>>
    /\ UNCHANGED <<msg, user_email, weights, profiles, ai_result, min_confidence,
                   flag_threshold, surface_threshold, features, raw_score, score,
                   breakdown, prior, decision, source, pre, fired, trace>>

SpecSkip == InitSkip /\ [][ShouldSkipEmail]_vars

-----------------------------------------------------------------------------
(* ai_client.AIClient.classify_email: the API call and its retries.  Each
   step is one pass of the loop: one request and what the API answers. *)

MAX_RETRIES == 3
INITIAL_BACKOFF_SECONDS == 1
MAX_BACKOFF_SECONDS == 30

\* what one request can end in: an output text that parses to a dict with
\* the classification key, one that parses to a dict without it, an empty
\* output text, a text that is not JSON, or one of the API's errors
ApiResponses ==
    {"result", "no_classification", "empty", "not_json", "rate_limit",
     "timeout", "connection", "server_error", "client_error",
     "error_without_status"}

\* every API error is caught and waited on
RetriedIncludingClientErrors(response) ==
    response \in {"rate_limit", "timeout", "connection", "server_error",
                  "client_error", "error_without_status"}

\* the except clauses that sleep and go on: RateLimitError, APITimeoutError,
\* APIConnectionError, and APIError with status_code >= 500
Retried(response) ==
    response \in {"rate_limit", "timeout", "connection", "server_error"}

\* the exception that leaves the call after a response that is not retried
RaisedBy(response) ==
    CASE response \in {"no_classification", "empty"} -> "ValueError"
      [] response = "not_json" -> "JSONDecodeError"
      [] OTHER -> "APIError"

\* min(backoff * 2, MAX_BACKOFF_SECONDS)
NextBackoff(backoff) == Min(backoff * 2, MAX_BACKOFF_SECONDS)

\* the call before its first request
AiCall ==
    [pc |-> "calling", attempt |-> 0, backoff |-> INITIAL_BACKOFF_SECONDS,
     slept |-> <<>>, responses |-> <<>>, outcome |-> "none"]

InitAiCall ==
    /\ msg = Message(NoSender, <<>>, <<>>, {}, <<FALSE, "normal", FALSE>>)
    /\ user_email = Me
    /\ VerdictIdle
    /\ weights = HEURISTIC_WEIGHTS
    /\ profiles = EmptyProfile
    /\ ai_result = NoVerdict
    /\ min_confidence = DEFAULT_MIN_CONFIDENCE
    /\ flag_threshold = HEURISTIC_FLAG_THRESHOLD
    /\ surface_threshold = HEURISTIC_SURFACE_THRESHOLD
    /\ pc = "ai"
    /\ Unset
    /\ clock = 0
    /\ file = NoFile
    /\ hist = <<>>
    /\ runs = <<AiCall>>

\* one pass of `for attempt in range(MAX_RETRIES)`; after the last pass the
\* loop is left and the call raises
AiAttempt(r) ==
    /\ runs[r].pc = "calling"
    /\ runs[r].attempt < MAX_RETRIES
    /\ \E response \in ApiResponses :
           runs' = [runs EXCEPT
               ![r].responses = Append(@, response),
               ![r].attempt = @ + 1,
               ![r].slept = IF Retried(response)
                            THEN Append(@, runs[r].backoff) ELSE @,
               ![r].backoff = IF Retried(response) THEN NextBackoff(@) ELSE @,
               ![r].pc = IF response = "result" THEN "returned"
                         ELSE IF ~Retried(response) THEN "raised"
                         ELSE IF runs[r].attempt + 1 = MAX_RETRIES THEN "raised"
                         ELSE "calling",
               ![r].outcome = IF response = "result" THEN "result"
                              ELSE IF ~Retried(response) THEN RaisedBy(response)
                              ELSE IF runs[r].attempt + 1 = MAX_RETRIES
                              THEN "Exception"
                              ELSE "none"]
    /\ UNCHANGED <<triageVars, verdictVars, clock, file, hist>>

NextAiCall == \E r \in DOMAIN runs : AiAttempt(r)

\* the call is one Python call: once made it runs on
SpecAiCall == InitAiCall /\ [][NextAiCall]_vars /\ WF_vars(NextAiCall)

-----------------------------------------------------------------------------
(* classify.classify_email and classify.classify_emails.  The AI client is
   there (main validates the API key before it classifies); a request to it
   ends in a result or in an exception. *)

\* what client.classify_email can answer: an exception, or a parsed result
AiAnswers ==
    {Raised("Exception")}
    \cup {Returned(WithShouldFlag(Verdict(c, 90, TRUE), sf).fields) :
             c \in {"action_request", "fyi"}, sf \in BOOLEAN}

\* classify.classify_email; answer is what the AI call ends in when made
classify_email(m, min_conf, u, answer) ==
    LET skip == should_skip_email(m, u)
    IN  IF skip[1] THEN SkippedResult(skip[2])
        ELSE IF HasRaised(answer) THEN ErrorResult(answer.raised)
        ELSE [k \in DOMAIN answer.value
                    \cup {"model_should_flag", "final_should_flag"} |->
                 IF k = "model_should_flag"
                 THEN Get(answer.value, "should_flag", FALSE)
                 ELSE IF k = "final_should_flag"
                 THEN compute_final_flag(answer.value, min_conf)
                 ELSE answer.value[k]]

\* a failed call left out of the count
CountsTowardLimitUnlessFailed(ai) ==
    ~Get(ai, "skipped", FALSE) /\ "error" \notin DOMAIN ai

\* if not ai_result.get("skipped"): ai_count += 1
CountsTowardLimit(ai) == ~Get(ai, "skipped", FALSE)

\* enriched_msg = dict(msg); enriched_msg["ai"] = ai
Enriched(m, ai) ==
    [k \in DOMAIN m \cup {"ai"} |-> IF k = "ai" THEN ai ELSE m[k]]

\* a call of classify_emails(messages, max_ai, min_confidence, user_email)
ClassifyRun(messages, max_ai) ==
    [pc |-> "classifying", messages |-> messages, input |-> messages,
     max_ai |-> max_ai, enriched |-> <<>>, ai_count |-> 0]

ClassifyMails ==
    { Mail("pat@vendor.com", <<Me>>, {"urgent"}, "can you send the report?", ""),
      Mail("noreply@vendor.com", <<Other>>, {"newsletter"},
           "can you send the report?", ""),
      Mail("pat@vendor.com", <<Me>>, {"urgent"}, "", PyNone) }

InitClassifyEmails ==
    /\ msg = Message(NoSender, <<>>, <<>>, {}, <<FALSE, "normal", FALSE>>)
    /\ user_email \in {PyNone, Me}
    /\ VerdictIdle
    /\ weights = HEURISTIC_WEIGHTS
    /\ profiles = EmptyProfile
    /\ ai_result = NoVerdict
    /\ min_confidence = DEFAULT_MIN_CONFIDENCE
    /\ flag_threshold = HEURISTIC_FLAG_THRESHOLD
    /\ surface_threshold = HEURISTIC_SURFACE_THRESHOLD
    /\ pc = "classify"
    /\ Unset
    /\ clock = 0
    /\ file = NoFile
    /\ hist = <<>>
    /\ runs \in {<<ClassifyRun(messages, max_ai)>> :
                   messages \in SeqsUpTo(ClassifyMails, MaxMails),
                   max_ai \in 0..MaxAi}

\* one pass of the loop over messages: the message is left to the AI limit
\* or classified; hist gets one entry for each request made to the AI
ClassifyNext(r) ==
    /\ runs[r].pc = "classifying"
    /\ Len(runs[r].enriched) < Len(runs[r].messages)
    /\ LET c == runs[r]
           m == c.messages[Len(c.enriched) + 1]
       IN  IF c.ai_count >= c.max_ai
           THEN /\ runs' = [runs EXCEPT
                        ![r].enriched =
                            Append(@, Enriched(m, SkippedResult("max_ai_limit")))]
                /\ hist' = hist
           ELSE \E answer \in AiAnswers :
                \E ai \in {classify_email(m, min_confidence, user_email, answer)} :
                    /\ runs' = [runs EXCEPT
                            ![r].enriched = Append(@, Enriched(m, ai)),
                            ![r].ai_count = IF CountsTowardLimit(ai)
                                            THEN @ + 1 ELSE @]
                    /\ hist' = IF should_skip_email(m, user_email)[1] THEN hist
                               ELSE Append(hist,
                                        [run |-> r, op |-> "ai_call",
                                         outcome |-> OutcomeName(answer),
                                         was |-> file, became |-> file])
    /\ UNCHANGED <<triageVars, verdictVars, clock, file>>

\* return enriched
ClassifyReturn(r) ==
    /\ runs[r].pc = "classifying"
    /\ Len(runs[r].enriched) = Len(runs[r].messages)
    /\ runs' = [runs EXCEPT ![r].pc = "returned"]
    /\ UNCHANGED <<triageVars, verdictVars, clock, file, hist>>

NextClassifyEmails ==
    \E r \in DOMAIN runs : ClassifyNext(r) \/ ClassifyReturn(r)

SpecClassifyEmails == InitClassifyEmails /\ [][NextClassifyEmails]_vars

-----------------------------------------------------------------------------
(* A profile built from the empty one by calls of update_sender_profiles *)

InitUpdates ==
    /\ msg = Message(NoSender, <<>>, <<>>, {}, <<FALSE, "normal", FALSE>>)
    /\ user_email = Me
    /\ VerdictIdle
    /\ weights = HEURISTIC_WEIGHTS
    /\ profiles = EmptyProfile
    /\ ai_result = NoVerdict
    /\ min_confidence = DEFAULT_MIN_CONFIDENCE
    /\ flag_threshold = HEURISTIC_FLAG_THRESHOLD
    /\ surface_threshold = HEURISTIC_SURFACE_THRESHOLD
    /\ pc = "batch"
    /\ Unset
    /\ clock = 24
    /\ file = NoFile
    /\ hist = <<>>
    /\ runs = <<Run("evaluated", EmptyProfile, <<>>)>>

\* update_sender_profiles(profiles, evaluated_messages) on the profile the
\* calls before it left
UpdateWith(r) ==
    /\ Len(hist) < MaxUpdates
    /\ \E batch \in SeqsUpTo(UpdateMessages, MaxBatch) :
           runs' = [runs EXCEPT
                       ![r].mem = update_sender_profiles(@, batch,
                                                         isoformat(clock))]
    /\ hist' = Append(hist, [run |-> r, op |-> "update", outcome |-> "returned",
                             was |-> file, became |-> file])
    /\ UNCHANGED <<triageVars, verdictVars, clock, file>>

SpecUpdates == InitUpdates /\ [][\E r \in DOMAIN runs : UpdateWith(r)]_vars

-----------------------------------------------------------------------------
(* Properties *)

Scored == pc \in {"scored", "evaluated", "fused", "done"}

\* the signals of a breakdown
BreakdownSignals(b) == {b[i].signal : i \in DOMAIN b}

RECURSIVE SumPoints(_, _)
\* the sum of the points of the first k entries of a breakdown
SumPoints(b, k) == IF k = 0 THEN 0 ELSE SumPoints(b, k - 1) + b[k].points

\* the sum of the weights of the signals that apply, taken as a set
RECURSIVE SumOfSet(_, _, _)
SumOfSet(S, sigs, w) ==
    IF S = {} THEN 0
    ELSE LET i == CHOOSE j \in S : TRUE
         IN  (IF sigs[i][2] THEN Get(w, sigs[i][1], 0) ELSE 0)
             + SumOfSet(S \ {i}, sigs, w)

UnclampedSum(f, w, prior_points) ==
    SumOfSet(DOMAIN Signals(f), Signals(f), w) + prior_points

\* the verdict meets the fusion bar
VerdictMeetsBar ==
    /\ ai_result.supplied
    /\ DOMAIN ai_result.fields =
           {"classification", "confidence", "asks_me_specifically"}
    /\ ai_result.fields.classification
           \in {"action_request", "direct_question", "meeting_request"}
    /\ ai_result.fields.confidence >= min_confidence
    /\ ai_result.fields.asks_me_specifically

\* C1: the score returned by score_features, and the score of every triage
\* result (also after AI fusion raised it to max(score, 95)), is an integer
\* in [0,100], for every feature set, weight table and sender profile.
C1_ScoreInRange == Scored => (score \in Int /\ 0 <= score /\ score <= 100)

\* the clamp acted on a negative total and AI fusion then raised the score
C1_Witness ==
    /\ pc = "done"
    /\ raw_score < 0
    /\ source = "ai+heuristic"
    /\ score = 95

\* C2 as stated: a verdict that meets the bar gives a final result with
\* decision flag, score >= 95 and source "ai+heuristic", for every message.
C2_Original ==
    (pc = "done" /\ VerdictMeetsBar)
        => /\ decision = "flag"
           /\ score >= 95
           /\ source = "ai+heuristic"

\* C2 amended: a verdict that meets the bar gives score = max(heuristic
\* score, 95), source "ai+heuristic" and decision flag after the fusion
\* step; the final decision is flag unless the message matches the guard of
\* a dampening rule 1-3, and then it is surface.
C2_FusionForcesFlagUnlessDampened ==
    (pc = "done" /\ VerdictMeetsBar)
        => /\ score = Max(Max(0, Min(100, raw_score)), 95)
           /\ score >= 95
           /\ source = "ai+heuristic"
           /\ pre.decision = "flag"
           /\ decision = IF \E r \in {1, 2, 3} :
                               RuleGuard(r, features, score, "flag")
                         THEN "surface" ELSE "flag"

\* a message scored below the flag threshold, fused to flag, then dampened
C2_Witness ==
    /\ pc = "done"
    /\ VerdictMeetsBar
    /\ raw_score < 70
    /\ pre.decision = "flag"
    /\ decision = "surface"

\* C3: a message with recipient_role cc and thread_addition_cc_me false whose
\* decision after threshold classification and AI fusion is flag has rule 1
\* fire and ends with decision surface.
C3_CcDampeningIsFinal ==
    (/\ pc = "done"
     /\ features.recipient_role = "cc"
     /\ ~features.thread_addition_cc_me
     /\ pre.decision = "flag")
        => /\ \E i \in DOMAIN fired : fired[i] = 1
           /\ decision = "surface"

\* scenario D: role cc, flagged by the heuristic score alone, with a direct
\* salutation that a promotion rule might have picked up
C3_Witness ==
    /\ pc = "done"
    /\ features.recipient_role = "cc"
    /\ ~features.thread_addition_cc_me
    /\ source = "heuristic"
    /\ score >= 70
    /\ pre.decision = "flag"
    /\ decision = "surface"

Decisions == {"ignore", "surface", "flag"}

\* the fields of a feature set that the guards of the override rules read
GuardFeatures(f) ==
    [ recipient_role |-> f.recipient_role,
      to_count |-> f.to_count,
      direct_salutation |-> f.direct_salutation,
      direct_salutation_to_me |-> f.direct_salutation_to_me,
      thread_addition_cc_me |-> f.thread_addition_cc_me,
      small_group_question |-> f.small_group_question,
      last_request_phrase |-> f.last_request_phrase,
      action_phrase_strong_hits |-> f.action_phrase_strong_hits,
      action_phrase_weak_hits |-> f.action_phrase_weak_hits,
      imperative_present |-> f.imperative_present,
      question_present |-> f.question_present,
      deadline_present |-> f.deadline_present ]

\* the feature sets extract_features produces, for user u, on the messages
\* of the model
ProducibleGuardFeatures(u) ==
    { GuardFeatures(extract_features(
          Message("pat@vendor.com", to, cc, text, <<FALSE, "normal", FALSE>>),
          u, M365_VIP_SENDERS, 0)) :
      to \in ToLists, cc \in CcLists, text \in Texts }

\* a score on each side of every threshold the rules and the fusion read
ScoreSamples ==
    { ScoreFloor, Rule5MinScore - 1, Rule5MinScore, Rule4MinScore - 1,
      Rule4MinScore, HEURISTIC_FLAG_THRESHOLD, AiForcedScore, ScoreCeiling }

ResultOf(f, s, d) ==
    [decision |-> d, score |-> s, breakdown |-> <<>>, features |-> f,
     source |-> "heuristic"]

\* in one pass from decision d0 with the decisions tr after each rule: a
\* dampening rule 1-3 changed flag to surface and a promotion rule 4-6 then
\* changed surface back to flag
Repromoted(d0, tr) ==
    \E i \in {1, 2, 3}, j \in {4, 5, 6} :
        /\ (IF i = 1 THEN d0 ELSE tr[i - 1]) = "flag"
        /\ tr[i] = "surface"
        /\ tr[j - 1] = "surface"
        /\ tr[j] = "flag"

OneMoreRule(S, f, s) ==
    UNION { { <<p[1] \cup {r}, ApplyRule(r, ResultOf(f, s, p[2])).decision>> :
              r \in Rules \ p[1] } : p \in S }

\* the final decisions of the six rules applied once each, over every order
AnyOrderDecisions(f, s, d0) ==
    LET L1 == OneMoreRule({<<{}, d0>>}, f, s)
        L2 == OneMoreRule(L1, f, s)
        L3 == OneMoreRule(L2, f, s)
        L4 == OneMoreRule(L3, f, s)
        L5 == OneMoreRule(L4, f, s)
        L6 == OneMoreRule(L5, f, s)
    IN  {p[2] : p \in L6}

C6_RulesChangeOnlyDecision ==
    pc = "done"
        => /\ score = pre.score
           /\ breakdown = pre.breakdown
           /\ features = pre.features
           /\ source = pre.source
           /\ Len(trace) = 6
           /\ \A k \in 1..6 :
                  trace[k] # (IF k = 1 THEN pre.decision ELSE trace[k - 1])
                      => \E i \in DOMAIN fired : fired[i] = k
           /\ (fired = <<>> => decision = pre.decision)

\* a promotion rule changed the decision of a result
C6_Witness ==
    /\ pc = "done"
    /\ fired # <<>>
    /\ pre.decision = "surface"
    /\ decision = "flag"

Rank(d) == CASE d = "ignore" -> 0 [] d = "surface" -> 1 [] d = "flag" -> 2

\* C7: classify_score returns flag for every score >= flag_threshold, and it
\* is monotone in the score when flag_threshold > surface_threshold.
C7_ClassifyMonotone ==
    pc = "classified"
        => /\ (score >= flag_threshold => decision = "flag")
           /\ flag_threshold > surface_threshold
                  => \A s1 \in Scores :
                         s1 < score
                             => Rank(classify_score(s1, flag_threshold,
                                                    surface_threshold))
                                    <= Rank(decision)

\* a score exactly at the flag threshold, the score below it being surface
C7_Witness ==
    /\ pc = "classified"
    /\ flag_threshold > surface_threshold
    /\ score = flag_threshold
    /\ decision = "flag"
    /\ score - 1 >= surface_threshold

PriorRecordPresent ==
    /\ _sender_email(msg) # ""
    /\ _sender_email(msg) \in DOMAIN profiles.senders
    /\ DOMAIN profiles.senders[_sender_email(msg)] # {}

PriorSeen ==
    IF PriorRecordPresent THEN profiles.senders[_sender_email(msg)].seen ELSE 0

ConfiguredBoost == Get(weights, "sender_history_max_boost", 12)
ConfiguredPenalty == Get(weights, "sender_history_max_penalty", -12)

\* C8 as stated: the prior is 0 for an empty or absent sender or seen < 3, and
\* for seen >= 3 it lies within [max_penalty, max_boost] for every configured
\* max_boost and max_penalty.
C8_Original ==
    pc = "prior_done"
        => /\ (PriorSeen < 3 => prior = 0)
           /\ (PriorSeen >= 3
                   => ConfiguredPenalty <= prior /\ prior <= ConfiguredBoost)

\* C8 amended: the prior is 0 for an empty or absent sender or seen < 3; for
\* seen >= 3 it lies within [max_penalty, max_boost] whenever max_penalty <=
\* max_boost, and it is max_penalty when max_penalty > max_boost.
C8_PriorBounded ==
    pc = "prior_done"
        => /\ (PriorSeen < 3 => prior = 0)
           /\ (PriorSeen >= 3 /\ ConfiguredPenalty <= ConfiguredBoost
                   => ConfiguredPenalty <= prior /\ prior <= ConfiguredBoost)
           /\ (PriorSeen >= 3 /\ ConfiguredPenalty > ConfiguredBoost
                   => prior = ConfiguredPenalty)

\* a sender that was always ignored, the raw prior -12 held at the floor -8
C8_Witness ==
    /\ pc = "prior_done"
    /\ PriorSeen >= 3
    /\ profiles.senders[_sender_email(msg)].flag_count = 0
    /\ profiles.senders[_sender_email(msg)].surface_count = 0
    /\ ConfiguredPenalty = -8
    /\ ConfiguredPenalty <= ConfiguredBoost
    /\ prior = -8

\* C9: strong and weak action phrases are mutually exclusive in scoring: no
\* breakdown holds both signals; with strong hits only the strong weight is
\* added; the weak weight is added exactly when there are weak hits and no
\* strong hit.
C9_StrongWeakExclusive ==
    pc = "scored"
        => LET sigs == BreakdownSignals(breakdown)
               strong == features.action_phrase_strong_hits
               weak == features.action_phrase_weak_hits
           IN  /\ ~({"action_phrase_strong", "action_phrase_weak"} \subseteq sigs)
               /\ strong > 0 => "action_phrase_weak" \notin sigs
               /\ (strong > 0 /\ Get(weights, "action_phrase_strong", 0) # 0)
                      => "action_phrase_strong" \in sigs
               /\ "action_phrase_weak" \in sigs => (strong = 0 /\ weak > 0)
               /\ (strong = 0 /\ weak > 0
                   /\ Get(weights, "action_phrase_weak", 0) # 0)
                      => "action_phrase_weak" \in sigs

\* a text with strong and weak hits at once, scored with the strong weight
C9_Witness ==
    /\ pc = "scored"
    /\ features.action_phrase_strong_hits > 0
    /\ features.action_phrase_weak_hits > 0
    /\ Get(weights, "action_phrase_weak", 0) # 0
    /\ "action_phrase_strong" \in BreakdownSignals(breakdown)

\* C10: the score returned by score_features is max(0, min(100, S)), S the
\* unclamped sum of every applicable weight plus the sender prior: the
\* running total is clamped once, at the end.
C10_ClampOnceAtEnd ==
    pc = "scored"
        => LET S == UnclampedSum(features, weights, prior)
           IN  /\ raw_score = S
               /\ score = Max(0, Min(100, S))

\* a running total that went below 0 and was offset by later contributions
C10_Witness ==
    /\ pc = "scored"
    /\ \E k \in DOMAIN breakdown : SumPoints(breakdown, k) < 0
    /\ raw_score > 0
    /\ score = raw_score

\* C11 (as stated): for every feature set, weight table and profile, the
\* points of the breakdown returned by score_features sum to the final
\* clamped score returned with it.
C11_Original ==
    pc = "scored" => SumPoints(breakdown, Len(breakdown)) = score

\* C11 (amended): the points of the breakdown sum to the unclamped total of
\* score_features; the returned score is that sum clamped to [0,100], so the
\* two are equal exactly when the sum lies in [0,100].
C11_BreakdownSumsToUnclampedTotal ==
    pc = "scored"
        => LET sum == SumPoints(breakdown, Len(breakdown))
           IN  /\ sum = raw_score
               /\ score = Max(0, Min(100, sum))
               /\ (sum = score) <=> (0 <= sum /\ sum <= 100)

\* a breakdown of several entries whose sum is above 100, the score held at 100
C11_Witness ==
    /\ pc = "scored"
    /\ Len(breakdown) >= 2
    /\ SumPoints(breakdown, Len(breakdown)) > 100
    /\ score = 100

\* the result of triage for the message of the state when no verdict is
\* supplied: evaluate_email followed by the override rules
ResultWithoutVerdict ==
    LET f == extract_features(msg, user_email, M365_VIP_SENDERS, clock)
        scoring == score_features(f, HEURISTIC_WEIGHTS, profiles)
    IN  OverrideDecision(RuleOrder,
            [decision |-> classify_score(scoring.score, HEURISTIC_FLAG_THRESHOLD,
                                         HEURISTIC_SURFACE_THRESHOLD),
             score |-> scoring.score,
             breakdown |-> scoring.breakdown,
             features |-> f,
             source |-> "heuristic"]).res

\* C12: a verdict that is present but does not meet the fusion bar never
\* changes the outcome: the decision and the score of the result equal those
\* obtained for the same message and profile with no verdict at all; only
\* source differs ("heuristic_with_ai_context" instead of "heuristic").
C12_VerdictBelowBarChangesOnlySource ==
    (pc = "done" /\ ~VerdictMeetsBar)
        => \E ref \in {ResultWithoutVerdict} :
               /\ decision = ref.decision
               /\ score = ref.score
               /\ breakdown = ref.breakdown
               /\ features = ref.features
               /\ ref.source = "heuristic"
               /\ source = IF ai_result.supplied
                           THEN "heuristic_with_ai_context" ELSE "heuristic"

\* a verdict of a flaggable type and high confidence that does not ask the
\* user, on a message that the heuristics leave at surface
C12_Witness ==
    /\ pc = "done"
    /\ ai_result.supplied
    /\ ~VerdictMeetsBar
    /\ ai_result.fields.classification \in FlaggableTypes
    /\ ai_result.fields.confidence >= min_confidence
    /\ decision = "surface"
    /\ source = "heuristic_with_ai_context"

\* the verdict of the state is a dict without a confidence
ConfidenceMissing ==
    ai_result.supplied /\ "confidence" \notin DOMAIN ai_result.fields

\* no promotion by the verdict: compute_final_flag false, the AI branch of
\* is_flag_candidate false (a non-empty dict takes that branch), no fusion
NoAiPromotion ==
    /\ ~final_flag.value
    /\ DOMAIN ai_result.fields # {} => ~flag_candidate.value
    /\ source # "ai+heuristic"

\* C13 (as stated): a verdict with a missing confidence field is treated as
\* confidence 0.0, and for every min_confidence in [0,1] this prevents the
\* AI-fusion promotion, compute_final_flag and the AI branch of
\* is_flag_candidate from firing, whatever the other fields.
C13_Original == ConfidenceMissing => NoAiPromotion

\* C13 (amended): a missing confidence is read as 0.0, which prevents the
\* promotion for every min_confidence in (0,1]; with min_confidence = 0 the
\* comparison 0.0 >= 0 holds and the promotion fires exactly when the
\* classification is flaggable and asks_me_specifically is true.
C13_MissingConfidenceBlocksAboveZero ==
    ConfidenceMissing
        => /\ min_confidence > 0 => NoAiPromotion
           /\ min_confidence = 0
                  => LET fires ==
                             /\ Get(ai_result.fields, "classification", "unknown")
                                    \in FlaggableTypes
                             /\ Get(ai_result.fields, "asks_me_specifically",
                                    FALSE)
                     IN  /\ final_flag.called => final_flag.value = fires
                         /\ (flag_candidate.called
                             /\ DOMAIN ai_result.fields # {})
                                => flag_candidate.value = fires
                         /\ pc \in {"fused", "done"}
                                => (source = "ai+heuristic") = fires

\* a flaggable verdict that asks the user and has no confidence, checked
\* against the default bar by all three
C13_Witness ==
    /\ ConfidenceMissing
    /\ DOMAIN ai_result.fields = {"classification", "asks_me_specifically"}
    /\ ai_result.fields.classification \in FlaggableTypes
    /\ ai_result.fields.asks_me_specifically
    /\ min_confidence = DEFAULT_MIN_CONFIDENCE
    /\ final_flag = Returned(FALSE)
    /\ flag_candidate = Returned(FALSE)
    /\ pc = "done"
    /\ source = "heuristic_with_ai_context"

\* the messages of a batch that update_sender_profiles counts for sender a
\* with a triage satisfying Test
MessagesOf(batch, a, Test(_)) ==
    Cardinality({i \in DOMAIN batch :
                    /\ a # ""
                    /\ _sender_email(batch[i]) = a
                    /\ Test(Get(batch[i], "triage", EmptyRecord))})

Decided(t) == "decision" \in DOMAIN t
AnyTriage(t) == TRUE
DecidedFlag(t) == Get(t, "decision", "ignore") = "flag"
DecidedSurface(t) == Get(t, "decision", "ignore") = "surface"
CountedIgnore(t) == Get(t, "decision", "ignore") \notin {"flag", "surface"}

\* a field of the record of sender a in profile p, or its default
Field(p, a, f, default) ==
    IF a \in DOMAIN p.senders THEN Get(p.senders[a], f, default) ELSE default

UpdateSenders == {"pat@vendor.com", "boss@corp.com"}

\* C15 (as stated): update_sender_profiles increments seen and the counter
\* matching the decision for each message with a resolved decision and a
\* non-empty sender; after a batch, a sender's seen has grown by the number
\* of its decided messages in the batch.
C15_Original ==
    \A r \in DOMAIN runs :
        runs[r].pc = "updated"
            => \A a \in UpdateSenders :
                   Field(runs[r].mem, a, "seen", 0)
                       = Field(runs[r].loaded, a, "seen", 0)
                         + MessagesOf(runs[r].batch, a, Decided)

\* C15 (amended): update_sender_profiles, for each message of the batch with
\* a non-empty sender, increments that sender's seen by exactly 1 and exactly
\* one counter: flag_count for flag, surface_count for surface, ignore_count
\* for ignore and for a message with no resolved decision; it sets last_seen.
\* After a batch a sender's seen has grown by the number of its messages in
\* the batch, decided or not.
C15_UpdateCountsEveryMessage ==
    \A r \in DOMAIN runs :
        runs[r].pc = "updated"
            => /\ "" \notin DOMAIN runs[r].mem.senders
               /\ \A a \in UpdateSenders :
                   LET before(f) == Field(runs[r].loaded, a, f, 0)
                       after(f) == Field(runs[r].mem, a, f, 0)
                       n(Test(_)) == MessagesOf(runs[r].batch, a, Test)
                   IN  /\ after("seen") = before("seen") + n(AnyTriage)
                       /\ after("flag_count")
                              = before("flag_count") + n(DecidedFlag)
                       /\ after("surface_count")
                              = before("surface_count") + n(DecidedSurface)
                       /\ after("ignore_count")
                              = before("ignore_count") + n(CountedIgnore)
                       /\ Field(runs[r].mem, a, "last_seen", PyNone)
                              = IF n(AnyTriage) > 0 THEN isoformat(clock)
                                ELSE Field(runs[r].loaded, a, "last_seen",
                                           PyNone)
                       /\ a \in DOMAIN runs[r].mem.senders
                              <=> (a \in DOMAIN runs[r].loaded.senders
                                   \/ n(AnyTriage) > 0)

\* a batch with a flagged and an undecided message of a known sender
C15_Witness ==
    \E r \in DOMAIN runs :
        /\ runs[r].pc = "updated"
        /\ Len(runs[r].batch) = 2
        /\ MessagesOf(runs[r].batch, "pat@vendor.com", DecidedFlag) = 1
        /\ MessagesOf(runs[r].batch, "pat@vendor.com", Decided) = 1
        /\ MessagesOf(runs[r].batch, "pat@vendor.com", AnyTriage) = 2
        /\ Field(runs[r].loaded, "pat@vendor.com", "seen", 0) = 2
        /\ Field(runs[r].mem, "pat@vendor.com", "seen", 0) = 4
        /\ Field(runs[r].mem, "pat@vendor.com", "flag_count", 0) = 2
        /\ Field(runs[r].mem, "pat@vendor.com", "ignore_count", 0) = 2

\* the save of run 1 and the load of run 2 that followed it
SavedThenLoaded ==
    /\ Len(hist) = 2
    /\ hist[1].op = "save"
    /\ hist[2].op = "load"

Untriaged(m) == [k \in DOMAIN m \ {"triage"} |-> m[k]]

\* the file as the run found it
FileAtLoad == IF hist = <<>> THEN file ELSE hist[1].was

\* C16: scoring never mutates sender history: from the load to the end of
\* the evaluation of the batch (extract_features, _bounded_sender_prior,
\* score_features, evaluate_email) the profile in memory is the profile that
\* was loaded, with no record created and no counter changed, and the file
\* is untouched; the profile changes only in the post-batch update step.
C16_ScoringLeavesProfile ==
    \A r \in DOMAIN runs :
        /\ runs[r].pc \in {"loaded", "evaluated"}
               => /\ runs[r].mem = runs[r].loaded
                  /\ runs[r].loaded = load_sender_profiles(
                                          FileAtLoad, hist[1].outcome = "read")
                  /\ file = FileAtLoad
        /\ runs[r].pc = "updated" => file = FileAtLoad

\* a batch of two messages scored with a sender prior and an unknown sender,
\* the profile in memory still as loaded
C16_Witness ==
    \E r \in DOMAIN runs :
        /\ runs[r].pc = "evaluated"
        /\ Len(runs[r].batch) = 2
        /\ runs[r].work[1].scoring.prior > 0
        /\ runs[r].loaded = BatchProfile
        /\ runs[r].mem = BatchProfile

WithoutIsRecent(res) ==
    [res EXCEPT !.features =
        [k \in DOMAIN res.features \ {"is_recent"} |-> res.features[k]]]

\* messages i and j of run r are the same message, both evaluated
EvaluatedTwice(r, i, j) ==
    /\ i # j
    /\ runs[r].stage[i] = "decided"
    /\ runs[r].stage[j] = "decided"
    /\ Untriaged(runs[r].batch[i]) = Untriaged(runs[r].batch[j])

\* C19 (as stated): evaluating the same message against the same profile
\* snapshot twice, regardless of when each evaluation runs, yields
\* TriageResults identical in every field (decision, score, reason,
\* breakdown, features including is_recent, source).
C19_Original ==
    \A r \in DOMAIN runs : \A i, j \in DOMAIN runs[r].batch :
        EvaluatedTwice(r, i, j)
            => runs[r].batch[i].triage = runs[r].batch[j].triage

\* C19 (amended): the two TriageResults are identical in decision, score,
\* reason, breakdown, source and every feature except is_recent; is_recent
\* is true exactly when received_at parses and the evaluation runs at most
\* 48 hours after it, so it is identical too when both evaluations run on
\* the same side of that instant.
C19_IdempotentExceptIsRecent ==
    \A r \in DOMAIN runs : \A i, j \in DOMAIN runs[r].batch :
        EvaluatedTwice(r, i, j)
            => /\ WithoutIsRecent(runs[r].batch[i].triage)
                      = WithoutIsRecent(runs[r].batch[j].triage)
               /\ runs[r].batch[i].triage.features.is_recent
                      = (/\ runs[r].batch[i].received_at.kind = "iso"
                         /\ runs[r].at[i] - runs[r].batch[i].received_at.at
                                <= RecentHours)

\* the same message evaluated when it arrived and 96 hours later
C19_Witness ==
    \E r \in DOMAIN runs :
        /\ Len(runs[r].batch) = 2
        /\ EvaluatedTwice(r, 1, 2)
        /\ runs[r].at[1] = 0
        /\ runs[r].at[2] > RecentHours
        /\ runs[r].batch[1].triage.features.is_recent
        /\ ~runs[r].batch[2].triage.features.is_recent
        /\ runs[r].batch[1].triage.decision = runs[r].batch[2].triage.decision

\* the profile a path holds: what a load that can read it returns
Persisted(f) == load_sender_profiles(f, TRUE)

\* C14: across any sequence of batch runs on the same path, each doing
\* load_sender_profiles, update_sender_profiles and save_sender_profiles
\* (runs whose load fails and falls back to the empty profile, or whose save
\* fails, included), the persisted seen count of every sender never
\* decreases and a sender record, once created, is never removed.
C14_Original ==
    \A k \in DOMAIN hist :
        /\ DOMAIN Persisted(hist[k].was).senders
               \subseteq DOMAIN Persisted(hist[k].became).senders
        /\ \A a \in DOMAIN Persisted(hist[k].was).senders :
               Field(Persisted(hist[k].became), a, "seen", 0)
                   >= Field(Persisted(hist[k].was), a, "seen", 0)

\* both runs loaded the file before either saved, and every read and write
\* succeeded
BothLoadedBeforeEitherSaved ==
    /\ Len(hist) = 4
    /\ hist[1].op = "load" /\ hist[1].outcome # "unreadable"
    /\ hist[2].op = "load" /\ hist[2].outcome # "unreadable"
    /\ hist[3].op = "save" /\ hist[3].outcome = "written"
    /\ hist[4].op = "save" /\ hist[4].outcome = "written"

\* C18: concurrent runs on the same profile file are not synchronized: when
\* two runs both load the file before either saves, the file that is left
\* holds the loaded counts plus the increments of the run that saved last
\* only; a sender's persisted seen is smaller than the number of messages
\* decided for it by the two runs together whenever the run that saved
\* first had a message of that sender.
C18_LostUpdate ==
    BothLoadedBeforeEitherSaved
        => LET first == hist[3].run
               last == hist[4].run
               base == Persisted(hist[1].was)
           IN  \A a \in UpdateSenders :
                   /\ Field(Persisted(file), a, "seen", 0)
                          = Field(base, a, "seen", 0)
                            + MessagesOf(runs[last].batch, a, AnyTriage)
                   /\ MessagesOf(runs[first].batch, a, AnyTriage) > 0
                          => Field(Persisted(file), a, "seen", 0)
                             < Field(base, a, "seen", 0)
                               + MessagesOf(runs[1].batch, a, AnyTriage)
                               + MessagesOf(runs[2].batch, a, AnyTriage)

\* two runs with one message of pat each over a file with three sightings:
\* the file ends with four, not five
C18_Witness ==
    /\ BothLoadedBeforeEitherSaved
    /\ MessagesOf(runs[1].batch, "pat@vendor.com", AnyTriage) = 1
    /\ MessagesOf(runs[2].batch, "pat@vendor.com", AnyTriage) = 1
    /\ Field(Persisted(hist[1].was), "pat@vendor.com", "seen", 0) = 3
    /\ Field(Persisted(file), "pat@vendor.com", "seen", 0) = 4

\* the cases in which load_sender_profiles is to fall back to the empty
\* profile: no file, a read that fails, text that is not JSON, JSON that is
\* not an object, an object without "senders"
FallsBack(f, outcome) ==
    \/ f.kind = "absent"
    \/ outcome = "unreadable"
    \/ f.text.shape # "object"
    \/ "senders" \notin f.text.keys

\* C21: load_sender_profiles never raises and returns the empty profile
\* when the file is missing, unreadable, not valid JSON, or holds a payload
\* that is not a dict or lacks the senders key; in every other case what it
\* returns is usable by _bounded_sender_prior and update_sender_profiles,
\* which return on it.
C21_Original ==
    \A k \in DOMAIN hist :
        /\ hist[k].op = "load"
               => /\ hist[k].outcome \in {"absent", "unreadable", "read"}
                  /\ FallsBack(hist[k].was, hist[k].outcome)
                         => runs[hist[k].run].loaded = EmptyProfile
        /\ hist[k].op \in {"prior", "update"} => hist[k].outcome = "returned"

\* the field is missing from the message or holds None
Absent(f) == msg.state[f] # "present"

\* C22: extract_features never raises: for every message in which any
\* subset of the fields (from, to, cc, subject, body_text, body_preview,
\* received_at, is_read, importance, has_attachments) is missing or null,
\* it returns a feature set in which the signals depending on those fields
\* are falsy (role unknown, counts 0, no pattern hits).
C22_Original ==
    /\ pc # "raised"
    /\ pc = "extracted"
           => /\ Absent("to") => /\ features.to_count = 0
                                 /\ features.recipient_role # "to"
              /\ Absent("cc") => features.recipient_role # "cc"
              /\ Absent("from") => /\ features.sender_email = ""
                                   /\ ~features.is_vip_sender
                                   /\ ~features.is_external_sender
                                   /\ ~features.is_internal_sender
              /\ Absent("body_text")
                     => /\ features.action_phrase_strong_hits = 0
                        /\ features.action_phrase_weak_hits = 0
                        /\ ~features.question_present
                        /\ ~features.deadline_present
                        /\ ~features.direct_salutation
              /\ Absent("received_at") => ~features.is_recent
              /\ Absent("importance") => ~features.is_high_importance
              /\ Absent("has_attachments") => ~features.has_attachments
              /\ Absent("is_read") => ~features.is_unread

\* the absolute distance in hours between two clock readings
Apart(a, b) == IF a >= b THEN a - b ELSE b - a

\* C23: is_recent is true exactly when the received timestamp parses and
\* lies within 48 hours of the evaluation time; for every other input
\* (missing, empty, unparsable, parsable without a timezone offset, older
\* than 48 hours, or more than 48 hours in the future) _is_recent returns
\* false and never raises.
C23_Original ==
    \A k \in DOMAIN hist :
        hist[k].op = "is_recent"
            => hist[k].outcome
                   = IF /\ msg.received_at.kind = "iso"
                        /\ Apart(clock, msg.received_at.at) <= RecentHours
                     THEN "True" ELSE "False"

\* the verdict holds the three fields compute_final_flag reads
Complete(fields) == VerdictKeys \subseteq DOMAIN fields

\* C24: compute_final_flag(ai_result, min_confidence) returns true if and
\* only if classification is one of action_request, direct_question,
\* meeting_request and confidence >= min_confidence and
\* asks_me_specifically is true, whatever the model's own should_flag says.
C24_FinalFlagIsTheThreeConditions ==
    (final_flag.called /\ Complete(ai_result.fields))
        => final_flag.value
               = (/\ ai_result.fields["classification"] \in FlaggableTypes
                  /\ ai_result.fields["confidence"] >= min_confidence
                  /\ ai_result.fields["asks_me_specifically"] = TRUE)

\* a verdict passing the three conditions is flagged although the model
\* said should_flag = false
C24_Witness ==
    /\ final_flag.called
    /\ Complete(ai_result.fields)
    /\ "should_flag" \in DOMAIN ai_result.fields
    /\ ~ai_result.fields["should_flag"]
    /\ final_flag.value = TRUE

\* the message has no body: body_text and body_preview are both blank
Blank(m) ==
    /\ m.body_text \in {PyNone, "", "   "}
    /\ m.body_preview \in {PyNone, "", "   "}

\* the subject or the sender address of the message looks like noise
Noisy(m) ==
    \/ m.from = "noreply@vendor.com"
    \/ m.subject \cap {"notification", "newsletter", "unsubscribe"} # {}

\* the To list holds the user's address, in whatever case
ToHoldsUser(m, u) ==
    /\ u \in {Me, MeMixedCase}
    /\ \E i \in DOMAIN m.to : m.to[i] \in {Me, MeMixedCase}

\* C25: should_skip_email skips a message with reason empty_body whenever
\* both body_text and body_preview are blank; otherwise it skips with reason
\* noise_pattern when the subject or sender address matches a noise
\* pattern, except that a message whose To list contains user_email
\* (case-insensitively) is never skipped for noise; every other message is
\* not skipped and gets the empty reason.
C25_PreFilter ==
    \A k \in DOMAIN hist :
        hist[k].op = "should_skip_email"
            => /\ Blank(msg) => hist[k].outcome = <<TRUE, "empty_body">>
               /\ (~Blank(msg) /\ Noisy(msg) /\ ~ToHoldsUser(msg, user_email))
                      => hist[k].outcome = <<TRUE, "noise_pattern">>
               /\ (~Blank(msg) /\ ToHoldsUser(msg, user_email))
                      => hist[k].outcome = <<FALSE, "">>
               /\ (~Blank(msg) /\ ~Noisy(msg))
                      => hist[k].outcome = <<FALSE, "">>

\* a newsletter that names the user in To, in another case than the
\* configured address, is not skipped
C25_Witness ==
    /\ Len(hist) = 1
    /\ hist[1].op = "should_skip_email"
    /\ hist[1].outcome = <<FALSE, "">>
    /\ Noisy(msg)
    /\ user_email = Me
    /\ msg.to = <<MeMixedCase>>

\* the call has returned or raised
AiCallDone == \A r \in DOMAIN runs : runs[r].pc \in {"returned", "raised"}

\* the waits of a call: 1, 2, 4, ... seconds, none above 30
WaitsDouble(slept) ==
    \A i \in DOMAIN slept :
        /\ slept[i] <= MAX_BACKOFF_SECONDS
        /\ i = 1 => slept[i] = INITIAL_BACKOFF_SECONDS
        /\ i > 1 => slept[i] = 2 * slept[i - 1] \/ slept[i] = MAX_BACKOFF_SECONDS

AttemptsBounded ==
    \A r \in DOMAIN runs :
        LET c == runs[r]
            n == Len(c.responses)
        IN  /\ n <= MAX_RETRIES
            /\ c.pc = "calling" => n < MAX_RETRIES
            \* a further request is made only after a retried error
            /\ \A i \in 1..(n - 1) :
                   c.responses[i] \in {"rate_limit", "timeout", "connection",
                                       "server_error"}
            \* one wait per retried error
            /\ WaitsDouble(c.slept)
            /\ Len(c.slept)
                   = Cardinality({i \in 1..n :
                         c.responses[i] \in {"rate_limit", "timeout",
                                             "connection", "server_error"}})
            \* it returns on a result with the classification key only
            /\ c.pc = "returned" => c.responses[n] = "result"
            /\ (n > 0 /\ c.responses[n] \in {"client_error",
                     "error_without_status", "empty", "no_classification"})
                   => c.pc = "raised"

\* C27: AIClient.classify_email always terminates after at most
\* MAX_RETRIES = 3 API attempts, either returning a parsed result that
\* contains the classification key or raising: it retries only after
\* rate-limit, timeout, connection and 5xx errors, with a wait that starts
\* at 1 second, doubles after each failure and never exceeds 30 seconds; a
\* non-5xx API error, an empty response or a response without
\* classification ends the call at once with no further attempt.
C27_TerminatesWithinRetries == []AttemptsBounded /\ <>AiCallDone

\* three retried errors: the waits were 1, 2 and 4 seconds and the call
\* raised
C27_Witness ==
    /\ AiCallDone
    /\ runs[1].responses = <<"rate_limit", "timeout", "server_error">>
    /\ runs[1].slept = <<1, 2, 4>>
    /\ runs[1].outcome = "Exception"

\* the entries among the first n that do not carry the skipped mark
Unskipped(enriched, n) ==
    {i \in 1..n : ~Get(enriched[i].ai, "skipped", FALSE)}

\* the entry without what classify_emails added to it
WithoutAi(e) == [k \in DOMAIN e \ {"ai"} |-> e[k]]

\* C26: classify_emails returns exactly one enriched entry per input
\* message, in input order, without mutating the input messages, and sends
\* at most max_ai messages to the AI: at most max_ai entries lack the
\* skipped mark, pre-filter skips do not consume the budget while failed AI
\* calls do, and once max_ai calls have been made every later message is
\* marked skipped with skip_reason max_ai_limit.
C26_OneEntryEachWithinBudget ==
    \A r \in DOMAIN runs :
        LET c == runs[r]
            n == Len(c.enriched)
        IN  /\ c.messages = c.input
            /\ n <= Len(c.input)
            /\ c.pc = "returned" => n = Len(c.input)
            /\ \A i \in 1..n : WithoutAi(c.enriched[i]) = c.input[i]
            \* the requests made, failed ones included, are the entries
            \* without the mark, and there are at most max_ai of them
            /\ Len(hist) <= c.max_ai
            /\ Len(hist) = Cardinality(Unskipped(c.enriched, n))
            /\ c.ai_count = Len(hist)
            /\ \A i \in 1..n :
                   Cardinality(Unskipped(c.enriched, i - 1)) >= c.max_ai
                       => /\ Get(c.enriched[i].ai, "skipped", FALSE)
                          /\ c.enriched[i].ai.skip_reason = "max_ai_limit"

\* with max_ai = 1: a message skipped by the pre-filter, then one whose AI
\* call failed, then one left to the limit
C26_Witness ==
    /\ runs[1].pc = "returned"
    /\ runs[1].max_ai = 1
    /\ Len(runs[1].enriched) = 3
    /\ runs[1].enriched[1].ai.skip_reason = "empty_body"
    /\ "error" \in DOMAIN runs[1].enriched[2].ai
    /\ runs[1].enriched[3].ai.skip_reason = "max_ai_limit"
    /\ hist[1].outcome = "Exception"

\* C28: with the default thresholds (flag 70, surface 40) and no verdict
\* meeting the fusion bar, the final decision is ignore exactly when the
\* score is below 40: no override rule produces ignore, and no promotion
\* rule fires on a message whose threshold decision is ignore; hence a
\* final flag or surface always carries a score of at least 40.
C28_IgnoreExactlyBelowSurfaceThreshold ==
    (pc = "done" /\ ~VerdictMeetsBar)
        => /\ decision = "ignore" <=> score < HEURISTIC_SURFACE_THRESHOLD
           /\ decision \in {"flag", "surface"}
                  => score >= HEURISTIC_SURFACE_THRESHOLD
           /\ pre.decision = "ignore" => fired = <<>>
           /\ \A i \in DOMAIN trace : trace[i] # "ignore" \/ pre.decision = "ignore"

\* a message promoted to flag by an override rule with a score between the
\* two thresholds
C28_Witness ==
    /\ pc = "done"
    /\ ~VerdictMeetsBar
    /\ decision = "flag"
    /\ pre.decision = "surface"
    /\ score >= HEURISTIC_SURFACE_THRESHOLD
    /\ score < HEURISTIC_FLAG_THRESHOLD

\* a message below the surface threshold that no rule touches
C28_WitnessIgnored ==
    /\ pc = "done"
    /\ ~VerdictMeetsBar
    /\ decision = "ignore"
    /\ features.direct_salutation_to_me

\* C29: in every profile reached from the empty profile by any sequence
\* of update_sender_profiles calls, each sender record satisfies
\* seen = flag_count + surface_count + ignore_count and seen >= 1, so the
\* response rate (flag_count + surface_count) / seen is in [0,1].
C29_CountersAddUpToSeen ==
    \A r \in DOMAIN runs :
        \A a \in DOMAIN runs[r].mem.senders :
            LET rec == runs[r].mem.senders[a]
            IN  /\ {"seen", "flag_count", "surface_count", "ignore_count"}
                       \subseteq DOMAIN rec
                /\ rec.seen = rec.flag_count + rec.surface_count
                                  + rec.ignore_count
                /\ rec.seen >= 1
                /\ rec.flag_count >= 0 /\ rec.surface_count >= 0
                /\ rec.ignore_count >= 0
                /\ rec.flag_count + rec.surface_count <= rec.seen

\* after three calls a sender has enough history for the prior, with one
\* message of each decision
C29_Witness ==
    /\ Len(hist) = MaxUpdates
    /\ "pat@vendor.com" \in DOMAIN runs[1].mem.senders
    /\ runs[1].mem.senders["pat@vendor.com"].seen = MinSeenForPrior
    /\ runs[1].mem.senders["pat@vendor.com"].flag_count = 1
    /\ runs[1].mem.senders["pat@vendor.com"].surface_count = 1
    /\ runs[1].mem.senders["pat@vendor.com"].ignore_count = 1

\* both functions were called on the verdict of the state
BothCalled == final_flag.called /\ flag_candidate.called

\* the offline rule: addressed To the user, not automated, an action keyword
OfflineCandidate ==
    /\ user_email \in {Lower(a) : a \in SeqRange(msg.to)}
    /\ Lower(msg.from) # "noreply@vendor.com"
    /\ "notification" \notin msg.text
    /\ msg.text \cap {"please review", "can you", "approve"} # {}

\* C30 (as stated): whenever an AI result is supplied (any dict, including
\* an empty one or one of the skipped/error placeholder results),
\* is_flag_candidate(email, ai_result, min_conf) equals
\* compute_final_flag(ai_result, min_conf) for every email.
C30_Original ==
    (BothCalled /\ ai_result.supplied)
        => flag_candidate.value = final_flag.value

\* C30: for every AI result that is a dict with at least one key (the
\* skipped and error placeholders included) is_flag_candidate equals
\* compute_final_flag for every email; an empty dict is taken for no
\* result, as None is: is_flag_candidate then applies the offline keyword
\* rule, while compute_final_flag returns false.
C30_AgreeOnNonEmptyVerdict ==
    /\ (BothCalled /\ ai_result.supplied /\ DOMAIN ai_result.fields # {})
           => flag_candidate.value = final_flag.value
    /\ (flag_candidate.called
           /\ (~ai_result.supplied \/ DOMAIN ai_result.fields = {}))
           => flag_candidate.value = OfflineCandidate
    /\ (final_flag.called /\ DOMAIN ai_result.fields = {})
           => final_flag.value = FALSE

\* an empty verdict on a message that asks for a review: the offline rule
\* makes it a candidate, compute_final_flag does not
C30_Witness ==
    /\ BothCalled
    /\ ai_result.supplied
    /\ DOMAIN ai_result.fields = {}
    /\ flag_candidate.value = TRUE
    /\ final_flag.value = FALSE

\* a skipped placeholder on the same kind of message: both say no
C30_WitnessPlaceholder ==
    /\ BothCalled
    /\ ai_result \in Placeholders
    /\ OfflineCandidate
    /\ flag_candidate.value = FALSE
    /\ final_flag.value = FALSE

====
